---- MODULE Spec2Model ----
(***************************************************************************)
(* Reconciliation engine of the 5G UPF operator.                           *)
(*                                                                         *)
(*   src/src/charm.py               configuration reconciler, bootstrap    *)
(*                                  runner, status aggregator              *)
(*   src/src/kubernetes_multus.py   attachment reconciler                  *)
(*                                                                         *)
(* One reconciliation pass runs to completion before the next starts; a    *)
(* pass is a sequence of steps, one per call the handler makes against     *)
(* the container or the cluster, and any such call may raise, which ends   *)
(* the pass.                                                               *)
(***************************************************************************)
EXTENDS Integers, Sequences, FiniteSets, TLC

VARIABLES
    \* ---- charm.py: desired state and the bessd container
    cfg,            \* CharmConfig of the current pass
    file,           \* <<>> or <<doc>>: /etc/bess/conf/upf.json (storage volume)
    plan,           \* services of the Pebble plan of the bessd container
    routes,         \* routing table of the bessd container
    iptRules,       \* number of ICMP port-unreachable DROP rules in OUTPUT
    marker,         \* /bessctl_configure_executed exists
    podDeleted,     \* delete_pod() was issued, the pod is not yet replaced
    status,         \* self.unit.status
    \* ---- charm.py: the running handler
    pc,             \* position of the handler ("idle": no pass is running)
    restart,        \* local of _configure_bessd_workload
    recreate_pod,   \* local of _configure_bessd_workload
    elapsed,        \* time.time() - initial_time in _run_bess_configuration
    \* ---- charm.py: what the current pass did and saw (history)
    result,         \* how the last pass ended ("running" while one runs)
    ops,            \* the mutating calls of the current pass, in order
    dirty,          \* the current pass changed container or cluster state
    afterOk,        \* the pass follows a completed pass with nothing between
    quiet,          \* nothing outside the charm happened since the last pass
    fromEmpty,      \* the pass started on a container with nothing applied
    diffKind,       \* how the stored document differed from the rendered one
    entryMarker,    \* the marker at the entry of _run_bess_configuration
    attempted,      \* bessctl was executed in this pass (ok or not)
    attemptAt,      \* value of elapsed when the last failed attempt started
    bessRuns,       \* successful bessctl runs in the current container
    outstanding,    \* action a written document still waits for
    facts,          \* <<>> or <<liveness answers of this status evaluation>>
    \* ---- kubernetes_multus.py
    nads,           \* names of the existing NetworkAttachmentDefinitions
    annot,          \* <<>> or <<JSON text>>: annotation k8s.v1.cni.cncf.io/networks
    caps,           \* container name -> securityContext.capabilities.add
    wantAnnot,      \* self.network_annotations
    wantCaps,       \* self.containers_requiring_net_admin_capability
    mpc,            \* position of _patch
    mi,             \* loop index of _patch over the desired definitions
    mops,           \* the mutating calls of the current _patch, in order
    mresult,        \* how the last _patch ended
    mafterOk,       \* the _patch follows a completed _patch
    mprevOps,       \* the mutating calls of the _patch before this one
    drift,          \* existing definitions whose content is not the desired
    mkind,          \* the handler that runs or ran last: _patch or _on_remove
    mentry,         \* the cluster objects as the handler found them
    mreads,         \* the reading calls of the current handler, in order
    mfailed,        \* position at which the handler raised ("none": it did not)
    \* ---- charm.py: the unit and the dispatch of an event
    leader,         \* self.unit.is_leader()
    cfgValid,       \* CharmConfig.from_charm does not raise CharmConfigInvalidError
    hw,             \* CPU flags and HugePages of the node
    pfcpPlan,       \* services of the Pebble plan of the pfcp-agent container
    event,          \* the event of the current pass ("none": not recorded)
    gate,           \* the check that ended the current pass ("none": none did)
    checked,        \* the checks the handler has evaluated in this pass, in order
    \* ---- charm.py: repeated route and firewall ensure
    once,           \* <<>> or <<routes and rules after the first round>>
    rounds,         \* rounds of route and firewall ensure made
    \* ---- charm.py: the rest of the Pebble plan of the bessd container
    checks,         \* checks of the Pebble plan of the bessd container
    \* ---- charm.py: what the liveness queries find and answer
    conn,           \* container -> container.can_connect()
    svcs,           \* service -> "absent", "inactive" or "active" in Pebble
    answers,        \* the liveness queries of the current pass, in order
    deferred        \* the framework holds a deferred pfcp_agent_pebble_ready

charmVars == <<cfg, file, plan, routes, iptRules, marker, podDeleted, status,
               pc, restart, recreate_pod, elapsed, result, ops, dirty, afterOk,
               quiet, fromEmpty, diffKind, entryMarker, attempted, attemptAt,
               bessRuns, outstanding, facts>>
multusVars == <<nads, annot, caps, wantAnnot, wantCaps, mpc, mi, mops, mresult,
                mafterOk, mprevOps, drift, mkind, mentry, mreads, mfailed>>
trigVars == <<leader, cfgValid, hw, pfcpPlan, event, gate, checked>>
ensureVars == <<once, rounds>>
layerVars == <<checks>>
liveVars == <<conn, svcs, answers, deferred>>
vars == <<charmVars, multusVars, trigVars, ensureVars, layerVars, liveVars>>

----------------------------------------------------------------------------
(* Bounds of the model *)

\* longest time a quickly failing bessctl attempt takes, in time units
MaxExecTime == 1
\* time a slowly failing bessctl attempt takes (exec gives a command 30)
SlowExecTime == 28
\* successful bessctl runs counted per container
MaxBessRuns == 2
\* rounds of route and firewall ensure made on one container
MaxEnsureRounds == 3

(* Constants of the program *)

\* timeout = 300 in _run_bess_configuration
Timeout == 300
\* time.sleep(2) in _run_bess_configuration
SleepTime == 2
\* "metric 110" of the default route
RouteMetric == 110

----------------------------------------------------------------------------
(* Desired configuration *)

DNNs == {"internet", "private"}
Modes == {"af_packet"}
Configs == [dnn : DNNs, enable_hw_checksum : BOOLEAN, upf_mode : Modes]

\* str(enable_hw_checksum).lower()
BoolText(b) == IF b THEN "true" ELSE "false"

\* The rendered upf.json: the template's variables; the JSON literal of hwcksum
\* is the lower-cased text of the bool.
render_bessd_config_file(c) ==
    [upf_hostname |-> "upf-external.ns.svc.cluster.local",
     mode |-> c.upf_mode,
     access_interface_name |-> "access",
     core_interface_name |-> "core",
     core_ip_address |-> "192.168.250.3",
     dnn |-> c.dnn,
     pod_share_path |-> "/pod-share",
     hwcksum |-> BoolText(c.enable_hw_checksum)]

\* json.loads(...).get("hwcksum") as a Python value: "True", "False" or "None"
\* ({} when the pull raises PathError)
StoredHwcksum(f) ==
    IF f = <<>> THEN "None"
    ELSE IF f[1].hwcksum = "true" THEN "True"
    ELSE IF f[1].hwcksum = "false" THEN "False"
    ELSE "None"

PyBool(b) == IF b THEN "True" ELSE "False"

_bessd_config_file_is_written(f) == f # <<>>

_bessd_config_file_content_matches(f, content) == f[1] = content

\* Variants of the comparison: equality, as the name reads, and no comparison.
HwcksumEqual(f, c) == StoredHwcksum(f) = PyBool(c.enable_hw_checksum)
HwcksumNotCompared(f, c) == TRUE

\* Returns whether the stored flag DIFFERS from the configured one
\* (existing_content.get("hwcksum") != self._charm_config.enable_hw_checksum).
_hwcksum_config_matches_pod_config(f, c) ==
    StoredHwcksum(f) # PyBool(c.enable_hw_checksum)

\* The fields in which the stored document differs from the rendered one.
DiffFields(f, content) ==
    {k \in DOMAIN content : f[1][k] # content[k]}

DiffKindOf(f, content) ==
    IF f = <<>> THEN "absent"
    ELSE IF DiffFields(f, content) = {} THEN "same"
    ELSE IF DiffFields(f, content) = {"hwcksum"} THEN "cksum_only"
    ELSE IF DiffFields(f, content) = {"dnn"} THEN "dnn_only"
    ELSE "other"

----------------------------------------------------------------------------
(* Pebble layer of the bessd container *)

_generate_bessd_startup_command(c) ==
    IF c.upf_mode # "dpdk" THEN "/bin/bessd -f -grpc-url=0.0.0.0:10514 -m 0"
    ELSE "/bin/bessd -f -grpc-url=0.0.0.0:10514 "

\* layer.services
_bessd_pebble_layer(c) ==
    {[name |-> "routectl", override |-> "replace", startup |-> "enabled",
      command |-> "/opt/bess/bessctl/conf/route_control.py -i access core",
      environment |-> "PYTHONPATH=/opt/bess PYTHONUNBUFFERED=1"],
     [name |-> "bessd", override |-> "replace", startup |-> "enabled",
      command |-> _generate_bessd_startup_command(c),
      environment |-> "CONF_FILE=/etc/bess/conf/upf.json PYTHONPATH=/opt/bess"]}

\* layer.checks: the TCP readiness check on BESSD_PORT
_bessd_pebble_layer_checks ==
    {[name |-> "online", override |-> "replace", level |-> "ready",
      tcp |-> 10514]}

\* add_layer(..., combine=True): a service of the layer replaces the service of
\* that name, every other service of the plan stays; the same for the checks.
add_layer(p, layer) ==
    {s \in p : \A l \in layer : l.name # s.name} \cup layer

----------------------------------------------------------------------------
(* Routes and firewall *)

DefaultRoute ==
    [dst |-> "default", via |-> "192.168.250.1", metric |-> RouteMetric]
RanRoute == [dst |-> "192.168.251.0/24", via |-> "192.168.252.1", metric |-> 0]

\* ip route replace: the route to the destination with that metric is replaced,
\* or the route is added
route_replace(table, r) ==
    {x \in table : ~(x.dst = r.dst /\ x.metric = r.metric)} \cup {r}

\* Variant: the check never finds the rule.
IpTablesRuleNeverFound(n) == FALSE

\* Variant: the check finds the rule only when it is there twice.
IpTablesRuleFoundWhenTwo(n) == n > 1

\* iptables-legacy --check: exit status 0 iff the rule is in the chain
_ip_tables_rule_exists(n) == n > 0

----------------------------------------------------------------------------
(* Status *)

\* Variant: bessd is not asked about.
StatusWithoutBessd(bessd, routectl, pfcp) ==
    IF ~routectl THEN "Waiting for routectl service to run"
    ELSE IF ~pfcp THEN "Waiting for pfcp agent service to run"
    ELSE "Active"

\* _set_unit_status: the first service that is not running decides
_set_unit_status(bessd, routectl, pfcp) ==
    IF ~bessd THEN "Waiting for bessd service to run"
    ELSE IF ~routectl THEN "Waiting for routectl service to run"
    ELSE IF ~pfcp THEN "Waiting for pfcp agent service to run"
    ELSE "Active"

----------------------------------------------------------------------------
(* The bessd trigger: _on_bessd_pebble_ready *)

Log(op) == ops' = Append(ops, op)

\* What _on_bessd_pebble_ready finds before it configures anything, in the
\* order it checks.
Gates == {"config_invalid", "not_leader", "cpu", "multus", "storage", "ok"}

GateStatus(g) ==
    CASE g = "config_invalid" -> "Blocked: invalid configuration"
      [] g = "not_leader" -> "Blocked: Scaling is not implemented for this charm"
      [] g = "cpu" -> "Blocked: Please use a CPU that has the capabilities"
      [] g = "multus" -> "Waiting for Multus to be ready"
      [] g = "storage" -> "Waiting for storage to be attached"
      [] OTHER -> status

NothingApplied ==
    file = <<>> /\ plan = {} /\ routes = {} /\ iptRules = 0 /\ ~marker

\* The history of a pass starts empty.
NewPass ==
    /\ ops' = <<>>
    /\ dirty' = FALSE
    /\ afterOk' = (result = "ok" /\ quiet)
    /\ fromEmpty' = NothingApplied
    /\ diffKind' = "n/a"
    /\ entryMarker' = "n/a"
    /\ attempted' = FALSE
    /\ attemptAt' = 0
    /\ elapsed' = 0
    /\ facts' = <<>>
    /\ restart' = FALSE
    /\ recreate_pod' = FALSE

\* The handler returns at the first gate that does not hold.
_on_bessd_pebble_ready_gated(g) ==
    /\ pc = "idle"
    /\ g # "ok"
    /\ NewPass
    /\ status' = GateStatus(g)
    /\ result' = "gated"
    /\ pc' = "done"
    /\ UNCHANGED <<multusVars, trigVars, ensureVars, layerVars, liveVars, cfg,
                   file, plan, routes, iptRules, marker, podDeleted, quiet,
                   bessRuns, outstanding>>

\* Every gate holds: _configure_bessd_workload starts.
_on_bessd_pebble_ready ==
    /\ pc = "idle"
    /\ NewPass
    /\ result' = "running"
    /\ pc' = "check_file"
    /\ UNCHANGED <<multusVars, trigVars, ensureVars, layerVars, liveVars, cfg,
                   file, plan, routes, iptRules, marker, podDeleted, status,
                   quiet, bessRuns, outstanding>>

\* Variant: the status is evaluated on the way out of a raising handler.
AbortEvaluatesStatus ==
    /\ pc \notin {"idle", "done"}
    /\ pc' = "done"
    /\ result' = "error"
    /\ status' = _set_unit_status(FALSE, FALSE, FALSE)
    /\ UNCHANGED <<multusVars, trigVars, ensureVars, layerVars, liveVars, cfg,
                   quiet, file, plan, routes, iptRules, marker, podDeleted,
                   restart, recreate_pod, elapsed, ops, dirty, afterOk,
                   fromEmpty, diffKind, entryMarker, attempted, attemptAt,
                   bessRuns, outstanding, facts>>

\* A call against the container or the cluster raises something the handler
\* does not catch: the pass ends there.
Abort ==
    /\ pc \notin {"idle", "done"}
    /\ pc' = "done"
    /\ result' = "error"
    /\ UNCHANGED <<multusVars, trigVars, ensureVars, layerVars, liveVars, cfg,
                   quiet, file, plan, routes, iptRules, marker, podDeleted,
                   status, restart, recreate_pod, elapsed, ops, dirty, afterOk,
                   fromEmpty, diffKind, entryMarker, attempted, attemptAt,
                   bessRuns, outstanding, facts>>

----------------------------------------------------------------------------
(* _configure_bessd_workload *)

\* Variant: the checksum flag is read after the push, from the document the
\* pass has written.
PulledAfterPush(stored, content) == <<content>>

\* The document _hwcksum_config_matches_pod_config pulls: the call stands
\* before _write_bessd_config_file, it gets the stored document
PulledBeforePush(stored, content) == stored

\* The document is rendered and compared with the stored one; the stored
\* checksum flag is read only when the document has to be written.
CompareConfigFile ==
    /\ pc = "check_file"
    /\ LET content == render_bessd_config_file(cfg)
           write == \/ ~_bessd_config_file_is_written(file)
              \/ ~_bessd_config_file_content_matches(file, content)
       IN /\ diffKind' = DiffKindOf(file, content)
          /\ recreate_pod' =
                 (write /\ _hwcksum_config_matches_pod_config(
                               PulledBeforePush(file, content), cfg))
          /\ pc' = IF write THEN "write_file" ELSE "default_route"
    /\ UNCHANGED <<multusVars, trigVars, ensureVars, layerVars, liveVars, cfg,
                   file, plan, routes, iptRules, marker, podDeleted, status,
                   restart, elapsed, result, ops, dirty, afterOk, quiet,
                   fromEmpty, entryMarker, attempted, attemptAt, bessRuns,
                   outstanding, facts>>

\* The action a written document waits for, until a restart or a pod
\* replacement takes it up: the pod replacement when it changes the checksum
\* flag of a stored document, the restart otherwise.
Owed(old, f, c) ==
    IF old = "recreate" THEN "recreate"
    ELSE IF f # <<>> /\ StoredHwcksum(f) # PyBool(c.enable_hw_checksum)
         THEN "recreate"
    ELSE "restart"

_write_bessd_config_file ==
    /\ pc = "write_file"
    /\ file' = <<render_bessd_config_file(cfg)>>
    /\ restart' = TRUE
    /\ Log("push_config")
    /\ dirty' = TRUE
    /\ outstanding' = Owed(outstanding, file, cfg)
    /\ pc' = "default_route"
    /\ UNCHANGED <<multusVars, trigVars, ensureVars, layerVars, liveVars, cfg,
                   plan, routes, iptRules, marker, podDeleted, status,
                   recreate_pod, elapsed, result, afterOk, quiet, fromEmpty,
                   diffKind, entryMarker, attempted, attemptAt, bessRuns,
                   facts>>

_create_default_route ==
    /\ pc = "default_route"
    /\ routes' = route_replace(routes, DefaultRoute)
    /\ Log("route_default")
    /\ dirty' = (dirty \/ routes' # routes)
    /\ pc' = "ran_route"
    /\ UNCHANGED <<multusVars, trigVars, ensureVars, layerVars, liveVars, cfg,
                   file, plan, iptRules, marker, podDeleted, status, restart,
                   recreate_pod, elapsed, result, afterOk, quiet, fromEmpty,
                   diffKind, entryMarker, attempted, attemptAt, bessRuns,
                   outstanding, facts>>

_create_ran_route ==
    /\ pc = "ran_route"
    /\ routes' = route_replace(routes, RanRoute)
    /\ Log("route_ran")
    /\ dirty' = (dirty \/ routes' # routes)
    /\ pc' = "iptables"
    /\ UNCHANGED <<multusVars, trigVars, ensureVars, layerVars, liveVars, cfg,
                   file, plan, iptRules, marker, podDeleted, status, restart,
                   recreate_pod, elapsed, result, afterOk, quiet, fromEmpty,
                   diffKind, entryMarker, attempted, attemptAt, bessRuns,
                   outstanding, facts>>

\* if not self._ip_tables_rule_exists(): self._create_ip_tables_rule()
CheckIpTablesRule ==
    /\ pc = "iptables"
    /\ pc' = IF _ip_tables_rule_exists(iptRules) THEN "plan" ELSE "iptables_insert"
    /\ UNCHANGED <<multusVars, trigVars, ensureVars, layerVars, liveVars, cfg,
                   file, plan, routes, iptRules, marker, podDeleted, status,
                   restart, recreate_pod, elapsed, result, ops, dirty, afterOk,
                   quiet, fromEmpty, diffKind, entryMarker, attempted,
                   attemptAt, bessRuns, outstanding, facts>>

_create_ip_tables_rule ==
    /\ pc = "iptables_insert"
    /\ iptRules' = iptRules + 1
    /\ Log("iptables_insert")
    /\ dirty' = TRUE
    /\ pc' = "plan"
    /\ UNCHANGED <<multusVars, trigVars, ensureVars, layerVars, liveVars, cfg,
                   file, plan, routes, marker, podDeleted, status, restart,
                   recreate_pod, elapsed, result, afterOk, quiet, fromEmpty,
                   diffKind, entryMarker, attempted, attemptAt, bessRuns,
                   outstanding, facts>>

\* if plan.services != layer.services
ComparePlan ==
    /\ pc = "plan"
    /\ pc' = IF plan # _bessd_pebble_layer(cfg) THEN "add_layer" ELSE "act"
    /\ UNCHANGED <<multusVars, trigVars, ensureVars, layerVars, liveVars, cfg,
                   file, plan, routes, iptRules, marker, podDeleted, status,
                   restart, recreate_pod, elapsed, result, ops, dirty, afterOk,
                   quiet, fromEmpty, diffKind, entryMarker, attempted,
                   attemptAt, bessRuns, outstanding, facts>>

AddBessdLayer ==
    /\ pc = "add_layer"
    /\ plan' = add_layer(plan, _bessd_pebble_layer(cfg))
    /\ checks' = add_layer(checks, _bessd_pebble_layer_checks)
    /\ restart' = TRUE
    /\ Log("add_layer")
    /\ dirty' = TRUE
    /\ pc' = "act"
    /\ UNCHANGED <<multusVars, trigVars, ensureVars, liveVars, cfg,
                   file, routes, iptRules, marker, podDeleted, status,
                   recreate_pod, elapsed, result, afterOk, quiet, fromEmpty,
                   diffKind, entryMarker, attempted, attemptAt, bessRuns,
                   outstanding, facts>>

\* Variant: the handler goes on to the status without the bess configuration.
SkipRunBess ==
    /\ pc' = "status"
    /\ elapsed' = elapsed
    /\ entryMarker' = entryMarker

\* Entry of _run_bess_configuration: initial_time = time.time()
EnterRunBess ==
    /\ pc' = "bess_loop"
    /\ elapsed' = 0
    /\ entryMarker' = IF marker THEN "present" ELSE "absent"

\* if recreate_pod: self.delete_pod()
delete_pod ==
    /\ pc = "act"
    /\ recreate_pod
    /\ podDeleted' = TRUE
    /\ Log("delete_pod")
    /\ dirty' = TRUE
    /\ outstanding' = "none"
    /\ EnterRunBess
    /\ UNCHANGED <<multusVars, trigVars, ensureVars, layerVars, liveVars, cfg,
                   file, plan, routes, iptRules, marker, status, restart,
                   recreate_pod, result, afterOk, quiet, fromEmpty, diffKind,
                   attempted, attemptAt, bessRuns, facts>>

\* Variant: bessd is restarted first.
RestartBessdFirst == <<"restart_bessd", "restart_routectl">>

\* The two restarts of the elif branch, in the order of the statements
RestartSequence == <<"restart_routectl", "restart_bessd">>

\* elif restart: restart routectl ...
RestartRoutectl ==
    /\ pc = "act"
    /\ ~recreate_pod
    /\ restart
    /\ Log(RestartSequence[1])
    /\ dirty' = TRUE
    /\ pc' = "restart_bessd"
    /\ UNCHANGED <<multusVars, trigVars, ensureVars, layerVars, liveVars, cfg,
                   file, plan, routes, iptRules, marker, podDeleted, status,
                   restart, recreate_pod, elapsed, result, afterOk, quiet,
                   fromEmpty, diffKind, entryMarker, attempted, attemptAt,
                   bessRuns, outstanding, facts>>

\* ... then bessd
RestartBessd ==
    /\ pc = "restart_bessd"
    /\ Log(RestartSequence[2])
    /\ dirty' = TRUE
    /\ outstanding' = IF outstanding = "restart" THEN "none" ELSE outstanding
    /\ EnterRunBess
    /\ UNCHANGED <<multusVars, trigVars, ensureVars, layerVars, liveVars, cfg,
                   file, plan, routes, iptRules, marker, podDeleted, status,
                   restart, recreate_pod, result, afterOk, quiet, fromEmpty,
                   diffKind, attempted, attemptAt, bessRuns, facts>>

\* neither flag is set
NoRestartNeeded ==
    /\ pc = "act"
    /\ ~recreate_pod
    /\ ~restart
    /\ EnterRunBess
    /\ UNCHANGED <<multusVars, trigVars, ensureVars, layerVars, liveVars, cfg,
                   file, plan, routes, iptRules, marker, podDeleted, status,
                   restart, recreate_pod, result, ops, dirty, afterOk, quiet,
                   fromEmpty, diffKind, attempted, attemptAt, bessRuns,
                   outstanding, facts>>

----------------------------------------------------------------------------
(* _run_bess_configuration *)

\* Variant: one more round after the budget.
WithinTimeoutAndOneSleep(e) == e <= Timeout + SleepTime

\* while time.time() - initial_time <= timeout
WithinTimeout(e) == e <= Timeout

\* Variant: the marker is not looked at.
MarkerNeverSeen == FALSE

_is_bessctl_executed == marker

\* time one failed attempt takes before the sleep
QuickExecTimes == 0..MaxExecTime
SlowExecTimes == {SlowExecTime}

\* The marker exists: return without running anything.
BessAlreadyExecuted ==
    /\ pc = "bess_loop"
    /\ WithinTimeout(elapsed)
    /\ _is_bessctl_executed
    /\ pc' = "status"
    /\ UNCHANGED <<multusVars, trigVars, ensureVars, layerVars, liveVars, cfg,
                   file, plan, routes, iptRules, marker, podDeleted, status,
                   restart, recreate_pod, elapsed, result, ops, dirty, afterOk,
                   quiet, fromEmpty, diffKind, entryMarker, attempted,
                   attemptAt, bessRuns, outstanding, facts>>

\* bessctl run ... exits 0: the marker is written next.
BessExecOk ==
    /\ pc = "bess_loop"
    /\ WithinTimeout(elapsed)
    /\ ~_is_bessctl_executed
    /\ bessRuns < MaxBessRuns
    /\ bessRuns' = bessRuns + 1
    /\ attempted' = TRUE
    /\ Log("bessctl_run")
    /\ dirty' = TRUE
    /\ pc' = "bess_mark"
    /\ UNCHANGED <<multusVars, trigVars, ensureVars, layerVars, liveVars, cfg,
                   file, plan, routes, iptRules, marker, podDeleted, status,
                   restart, recreate_pod, elapsed, result, afterOk, quiet,
                   fromEmpty, diffKind, entryMarker, attemptAt, outstanding,
                   facts>>

\* Variant: the marker is written after the failed run too.
BessExecFailedThenMarks(d) ==
    /\ pc = "bess_loop"
    /\ WithinTimeout(elapsed)
    /\ ~_is_bessctl_executed
    /\ attempted' = TRUE
    /\ attemptAt' = elapsed
    /\ elapsed' = elapsed + d + SleepTime
    /\ pc' = "bess_mark"
    /\ UNCHANGED <<multusVars, trigVars, ensureVars, layerVars, liveVars, cfg,
                   file, plan, routes, iptRules, marker, podDeleted, status,
                   restart, recreate_pod, result, ops, dirty, afterOk, quiet,
                   fromEmpty, diffKind, entryMarker, bessRuns, outstanding,
                   facts>>

\* bessctl run ... raises ExecError: time.sleep(2), then the loop's test again.
BessExecFailed(d) ==
    /\ pc = "bess_loop"
    /\ WithinTimeout(elapsed)
    /\ ~_is_bessctl_executed
    /\ attempted' = TRUE
    /\ attemptAt' = elapsed
    /\ elapsed' = elapsed + d + SleepTime
    /\ UNCHANGED <<multusVars, trigVars, ensureVars, layerVars, liveVars, cfg,
                   file, plan, routes, iptRules, marker, podDeleted, status,
                   pc, restart, recreate_pod, result, ops, dirty, afterOk,
                   quiet, fromEmpty, diffKind, entryMarker, bessRuns,
                   outstanding, facts>>

_create_bessctl_executed_validation_file ==
    /\ pc = "bess_mark"
    /\ marker' = TRUE
    /\ Log("push_marker")
    /\ dirty' = TRUE
    /\ pc' = "status"
    /\ UNCHANGED <<multusVars, trigVars, ensureVars, layerVars, liveVars, cfg,
                   file, plan, routes, iptRules, podDeleted, status, restart,
                   recreate_pod, elapsed, result, afterOk, quiet, fromEmpty,
                   diffKind, entryMarker, attempted, attemptAt, bessRuns,
                   outstanding, facts>>

\* Variant: past the budget the loop starts over instead of raising.
BessTimedOutStartsOver ==
    /\ pc = "bess_loop"
    /\ ~WithinTimeout(elapsed)
    /\ elapsed' = 0
    /\ UNCHANGED <<multusVars, trigVars, ensureVars, layerVars, liveVars, cfg,
                   quiet, file, plan, routes, iptRules, marker, podDeleted,
                   status, restart, recreate_pod, pc, result, ops, dirty,
                   afterOk, fromEmpty, diffKind, entryMarker, attempted,
                   attemptAt, bessRuns, outstanding, facts>>

\* raise TimeoutError("Timed out trying to run configuration for bess")
BessTimedOut ==
    /\ pc = "bess_loop"
    /\ ~WithinTimeout(elapsed)
    /\ pc' = "done"
    /\ result' = "timeout"
    /\ UNCHANGED <<multusVars, trigVars, ensureVars, layerVars, liveVars, cfg,
                   quiet, file, plan, routes, iptRules, marker, podDeleted,
                   status, restart, recreate_pod, elapsed, ops, dirty, afterOk,
                   fromEmpty, diffKind, entryMarker, attempted, attemptAt,
                   bessRuns, outstanding, facts>>

----------------------------------------------------------------------------
(* Status evaluation at the end of the pass *)

\* service_is_running_on_container answers b, r, p for bessd, routectl and
\* pfcp-agent, asked now.
SetUnitStatus(b, r, p) ==
    /\ pc = "status"
    /\ status' = _set_unit_status(b, r, p)
    /\ facts' = <<[bessd |-> b, routectl |-> r, pfcp |-> p]>>
    /\ pc' = "done"
    /\ result' = "ok"
    /\ UNCHANGED <<multusVars, trigVars, ensureVars, layerVars, liveVars, cfg,
                   quiet, file, plan, routes, iptRules, marker, podDeleted,
                   restart, recreate_pod, elapsed, ops, dirty, afterOk,
                   fromEmpty, diffKind, entryMarker, attempted, attemptAt,
                   bessRuns, outstanding>>

\* The handler has returned or raised: the charm waits for the next event.
\* Of the pass only its outcome is kept, for the pass that follows.
Return ==
    /\ pc = "done"
    /\ pc' = "idle"
    /\ result' = IF result = "ok" THEN "ok" ELSE "none"
    /\ quiet' = TRUE
    /\ ops' = <<>>
    /\ dirty' = FALSE
    /\ afterOk' = FALSE
    /\ fromEmpty' = FALSE
    /\ diffKind' = "n/a"
    /\ entryMarker' = "n/a"
    /\ attempted' = FALSE
    /\ attemptAt' = 0
    /\ elapsed' = 0
    /\ facts' = <<>>
    /\ restart' = FALSE
    /\ recreate_pod' = FALSE
    /\ event' = "none"
    /\ gate' = "none"
    /\ checked' = <<>>
    /\ UNCHANGED <<multusVars, ensureVars, layerVars, liveVars, cfg, file,
                   plan, routes, iptRules, marker, podDeleted, status,
                   bessRuns, outstanding, leader, cfgValid, hw, pfcpPlan>>

----------------------------------------------------------------------------
(* What happens outside the charm, between passes *)

\* The operator changes the configuration.
ConfigChanged(c) ==
    /\ pc = "idle"
    /\ c # cfg
    /\ cfg' = c
    /\ quiet' = FALSE
    /\ UNCHANGED <<multusVars, trigVars, ensureVars, layerVars, liveVars, file,
                   plan, routes, iptRules, marker, podDeleted, status, pc,
                   restart, recreate_pod, elapsed, result, ops, dirty, afterOk,
                   fromEmpty, diffKind, entryMarker, attempted, attemptAt,
                   bessRuns, outstanding, facts>>

\* Variant: the marker file is found again in the new container.
PodReplacedKeepsMarker ==
    /\ pc = "idle"
    /\ podDeleted
    /\ podDeleted' = FALSE
    /\ plan' = {}
    /\ routes' = {}
    /\ iptRules' = 0
    /\ outstanding' = "none"
    /\ quiet' = FALSE
    /\ pfcpPlan' = {}
    /\ checks' = {}
    /\ UNCHANGED <<multusVars, ensureVars, liveVars, cfg, file, marker,
                   bessRuns, status, pc, restart, recreate_pod, elapsed,
                   result, ops, dirty, afterOk, fromEmpty, diffKind,
                   entryMarker, attempted, attemptAt, facts, leader, cfgValid,
                   hw, event, gate, checked>>

\* The statefulset controller replaces the deleted pod: the container starts
\* from its image, the storage volume with upf.json is attached again.
PodReplaced ==
    /\ pc = "idle"
    /\ podDeleted
    /\ podDeleted' = FALSE
    /\ plan' = {}
    /\ routes' = {}
    /\ iptRules' = 0
    /\ marker' = FALSE
    /\ bessRuns' = 0
    /\ outstanding' = "none"
    /\ quiet' = FALSE
    /\ pfcpPlan' = {}
    /\ checks' = {}
    /\ UNCHANGED <<multusVars, ensureVars, liveVars, cfg, file,
                   status, pc, restart, recreate_pod, elapsed, result, ops,
                   dirty, afterOk, fromEmpty, diffKind, entryMarker, attempted,
                   attemptAt, facts, leader, cfgValid, hw, event, gate,
                   checked>>

----------------------------------------------------------------------------
(* The charm on its container *)

MultusAtRest ==
    /\ nads = {}
    /\ annot = <<>>
    /\ caps = [c \in {"bessd", "pfcp-agent"} |-> {}]
    /\ wantAnnot = <<>>
    /\ wantCaps = <<>>
    /\ mpc = "idle"
    /\ mi = 1
    /\ mops = <<>>
    /\ mresult = "none"
    /\ mafterOk = FALSE
    /\ mprevOps = <<>>
    /\ drift = {}
    /\ mkind = "none"
    /\ mentry = [nads |-> {}, drift |-> {}, annot |-> <<>>,
                 caps |-> [c \in {"bessd", "pfcp-agent"} |-> {}]]
    /\ mreads = <<>>
    /\ mfailed = "none"

\* The leader unit with a valid configuration on a node that has everything.
UnitAtRest ==
    /\ leader = TRUE
    /\ cfgValid = TRUE
    /\ hw = [extensions |-> TRUE, pdpe1gb |-> TRUE, hugepages |-> TRUE]
    /\ pfcpPlan = {}
    /\ event = "none"
    /\ gate = "none"
    /\ checked = <<>>

EnsureAtRest ==
    /\ once = <<>>
    /\ rounds = 0

\* The plan of a container started from its image holds no check.
LayerAtRest == checks = {}

\* Both containers reachable, the three services running, nothing asked.
LiveAtRest ==
    /\ conn = [c \in {"bessd", "pfcp-agent"} |-> TRUE]
    /\ svcs = [x \in {"bessd", "routectl", "pfcp-agent"} |-> "active"]
    /\ answers = <<>>
    /\ deferred = FALSE

CharmAtRest ==
    /\ file = <<>>
    /\ plan = {}
    /\ routes = {}
    /\ iptRules = 0
    /\ marker = FALSE
    /\ podDeleted = FALSE
    /\ status = "Unknown"
    /\ pc = "idle"
    /\ restart = FALSE
    /\ recreate_pod = FALSE
    /\ elapsed = 0
    /\ result = "none"
    /\ ops = <<>>
    /\ dirty = FALSE
    /\ afterOk = FALSE
    /\ quiet = TRUE
    /\ fromEmpty = FALSE
    /\ diffKind = "n/a"
    /\ entryMarker = "n/a"
    /\ attempted = FALSE
    /\ attemptAt = 0
    /\ bessRuns = 0
    /\ outstanding = "none"
    /\ facts = <<>>

Init ==
    /\ cfg \in Configs
    /\ CharmAtRest
    /\ MultusAtRest
    /\ UnitAtRest
    /\ EnsureAtRest
    /\ LayerAtRest
    /\ LiveAtRest

Next ==
    \/ \E g \in Gates : _on_bessd_pebble_ready_gated(g)
    \/ _on_bessd_pebble_ready
    \/ Abort
    \/ CompareConfigFile
    \/ _write_bessd_config_file
    \/ _create_default_route
    \/ _create_ran_route
    \/ CheckIpTablesRule
    \/ _create_ip_tables_rule
    \/ ComparePlan
    \/ AddBessdLayer
    \/ delete_pod
    \/ RestartRoutectl
    \/ RestartBessd
    \/ NoRestartNeeded
    \/ BessAlreadyExecuted
    \/ BessExecOk
    \/ \E d \in SlowExecTimes : BessExecFailed(d)
    \/ _create_bessctl_executed_validation_file
    \/ BessTimedOut
    \/ \E b, r, p \in BOOLEAN : SetUnitStatus(b, r, p)
    \/ Return
    \/ \E c \in Configs : ConfigChanged(c)
    \/ PodReplaced

Spec == Init /\ [][Next]_vars

----------------------------------------------------------------------------
(* The same charm with one configuration that never changes and a bessctl  *)
(* that fails quickly: the retry loop of _run_bess_configuration with      *)
(* every value of its clock.                                               *)

InitBoot ==
    /\ cfg = [dnn |-> "internet", enable_hw_checksum |-> FALSE,
              upf_mode |-> "af_packet"]
    /\ CharmAtRest
    /\ MultusAtRest
    /\ UnitAtRest
    /\ EnsureAtRest
    /\ LayerAtRest
    /\ LiveAtRest

NextBoot ==
    \/ _on_bessd_pebble_ready
    \/ Abort
    \/ CompareConfigFile
    \/ _write_bessd_config_file
    \/ _create_default_route
    \/ _create_ran_route
    \/ CheckIpTablesRule
    \/ _create_ip_tables_rule
    \/ ComparePlan
    \/ AddBessdLayer
    \/ delete_pod
    \/ RestartRoutectl
    \/ RestartBessd
    \/ NoRestartNeeded
    \/ BessAlreadyExecuted
    \/ BessExecOk
    \/ \E d \in QuickExecTimes : BessExecFailed(d)
    \/ _create_bessctl_executed_validation_file
    \/ BessTimedOut
    \/ \E b, r, p \in BOOLEAN : SetUnitStatus(b, r, p)
    \/ Return
    \/ PodReplaced

SpecBoot == InitBoot /\ [][NextBoot]_vars

\* A handler that has been dispatched runs on: whatever step is possible is
\* eventually taken. Which of the possible steps it is (the run succeeds,
\* fails, a call raises) is not constrained.
SpecBootFair == SpecBoot /\ WF_vars(NextBoot)

----------------------------------------------------------------------------
(* The dispatch of an event: the charm is constructed (__init__), then the  *)
(* handler observed for the event runs. update_status runs the handler of   *)
(* config_changed, config_storage_attached that of bessd_pebble_ready.      *)
(* Relation data (fiveg_n3, fiveg_n4) is not part of the model.             *)

TriggerConfigs ==
    [dnn : {"internet"}, enable_hw_checksum : {FALSE},
     upf_mode : {"af_packet", "dpdk"}]

\* the node: avx2 and rdrand among the CPU flags, pdpe1gb among them, and
\* 2Gi of 1Gi HugePages allocatable on every node
Nodes == [extensions : BOOLEAN, pdpe1gb : BOOLEAN, hugepages : BOOLEAN]

\* Variant: __init__ does not ask whether the unit is the leader.
InitIgnoresLeader(l, v) == IF ~v THEN "config_invalid" ELSE "ok"

\* Variant: __init__ does not look at the configuration.
InitIgnoresConfig(l, v) == IF ~l THEN "not_leader" ELSE "ok"

\* __init__: what makes it return before it observes any event
__init__(l, v) ==
    IF ~l THEN "not_leader"
    ELSE IF ~v THEN "config_invalid"
    ELSE "ok"

\* _is_cpu_compatible: the status it sets when it returns False, else "ok"
_is_cpu_compatible(h, c) ==
    IF ~h.extensions
    THEN "Blocked: Please use a CPU that has the following capabilities: avx2, rdrand"
    ELSE IF c.upf_mode = "dpdk" /\ ~h.pdpe1gb
    THEN "Blocked: Please use a CPU that has the following capabilities: avx2, rdrand, pdpe1gb"
    ELSE IF c.upf_mode = "dpdk" /\ ~h.hugepages
    THEN "Blocked: Not enough HugePages available"
    ELSE "ok"

\* The checks of each handler, in its order: the first that fails.
BessdGate(v, h, c, multusReady, storage) ==
    IF ~v THEN "config_invalid"
    ELSE IF _is_cpu_compatible(h, c) # "ok" THEN "cpu"
    ELSE IF ~multusReady THEN "multus"
    ELSE IF ~storage THEN "storage"
    ELSE "ok"

ConfigGate(v, h, c, multusAvailable) ==
    IF ~v THEN "config_invalid"
    ELSE IF _is_cpu_compatible(h, c) # "ok" THEN "cpu"
    ELSE IF ~multusAvailable THEN "multus_unavailable"
    ELSE "ok"

\* Variant: the liveness of bessd is asked before the CPU.
PfcpGateLivenessFirst(h, c, bessdRunning) ==
    IF ~bessdRunning THEN "bessd"
    ELSE IF _is_cpu_compatible(h, c) # "ok" THEN "cpu"
    ELSE "ok"

\* Variant: the liveness of bessd is not asked.
PfcpGateWithoutLiveness(h, c, bessdRunning) ==
    IF _is_cpu_compatible(h, c) # "ok" THEN "cpu" ELSE "ok"

PfcpGate(h, c, bessdRunning) ==
    IF _is_cpu_compatible(h, c) # "ok" THEN "cpu"
    ELSE IF ~bessdRunning THEN "bessd"
    ELSE "ok"

InstallGate(h, c) ==
    IF _is_cpu_compatible(h, c) # "ok" THEN "cpu" ELSE "ok"

\* The status set where a pass ends at a check (a non-leader's and an invalid
\* configuration's by __init__)
TriggerStatus(g, h, c) ==
    CASE g = "not_leader" -> "Blocked: Scaling is not implemented for this charm"
      [] g = "config_invalid" -> "Blocked: invalid configuration"
      [] g = "cpu" -> _is_cpu_compatible(h, c)
      [] g = "multus_unavailable" -> "Blocked: Multus is not installed or enabled"
      [] g = "container" -> "Waiting for bessd container to be ready"
      [] g = "multus" -> "Waiting for Multus to be ready"
      [] g = "storage" -> "Waiting for storage to be attached"
      [] g = "bessd" -> "Waiting for bessd service to run"
      [] OTHER -> status

\* layer.services of the pfcp-agent container
_pfcp_agent_pebble_layer ==
    {[name |-> "pfcp-agent", override |-> "replace", startup |-> "enabled",
      command |-> "pfcpiface -config /tmp/conf/upf.json"]}

\* The checks of each handler in the order of its statements, by what ends
\* the pass when the check fails.
BessdOrder == <<"config_invalid", "not_leader", "cpu", "multus", "storage">>
ConfigOrder == <<"config_invalid", "not_leader", "cpu", "multus_unavailable">>
PfcpOrder == <<"not_leader", "cpu", "bessd">>
InstallOrder == <<"cpu">>

\* The checks evaluated by a handler that ends at g ("ok": at none)
Evaluated(order, g) ==
    IF g = "ok" THEN order
    ELSE SubSeq(order, 1, CHOOSE i \in 1..Len(order) : order[i] = g)

\* Variant: the handler returns without event.defer().
DropsEvent(g) == FALSE

\* event.defer(): only where _on_pfcp_agent_pebble_ready finds bessd not
\* running; a handler that returns otherwise leaves nothing deferred
Defers(g) == g = "bessd"

\* The handler returns at check g, or goes on at position p.
EndsAt(g) ==
    /\ gate' = g
    /\ status' = TriggerStatus(g, hw, cfg)
    /\ result' = "gated"
    /\ pc' = "done"

Proceeds(p) ==
    /\ gate' = "none"
    /\ status' = status
    /\ result' = "running"
    /\ pc' = p

\* what a dispatch leaves alone until its handler acts
DispatchFrame ==
    UNCHANGED <<multusVars, ensureVars, layerVars, liveVars, cfg, file, plan, routes, iptRules,
                marker, podDeleted, quiet, bessRuns, outstanding, leader,
                cfgValid, hw, pfcpPlan>>

\* what a step of a handler that only logs a call leaves alone
StepFrame ==
    UNCHANGED <<multusVars, ensureVars, layerVars, liveVars, cfg, file, plan, routes, iptRules,
                marker, podDeleted, quiet, bessRuns, outstanding, leader,
                cfgValid, hw, event, restart, recreate_pod, elapsed, afterOk,
                fromEmpty, diffKind, entryMarker, attempted, attemptAt, facts>>

Events ==
    {"config_changed", "bessd_pebble_ready", "pfcp_agent_pebble_ready",
     "install"}

\* __init__ returns before it observes anything: no handler runs
DispatchUnobserved(e) ==
    /\ pc = "idle"
    /\ __init__(leader, cfgValid) # "ok"
    /\ NewPass
    /\ event' = e
    /\ checked' = <<>>
    /\ EndsAt(__init__(leader, cfgValid))
    /\ DispatchFrame

\* bessd_pebble_ready, config_storage_attached: _on_bessd_pebble_ready
Dispatch_bessd_pebble_ready ==
    /\ pc = "idle"
    /\ __init__(leader, cfgValid) = "ok"
    /\ NewPass
    /\ event' = "bessd_pebble_ready"
    /\ \E multusReady, storage \in BOOLEAN :
          LET g == BessdGate(cfgValid, hw, cfg, multusReady, storage)
          IN /\ checked' = Evaluated(BessdOrder, g)
             /\ IF g = "ok" THEN Proceeds("check_file") ELSE EndsAt(g)
    /\ DispatchFrame

\* config_changed, update_status: _on_config_changed up to the emits
Dispatch_config_changed ==
    /\ pc = "idle"
    /\ __init__(leader, cfgValid) = "ok"
    /\ NewPass
    /\ event' = "config_changed"
    /\ \E multusAvailable \in BOOLEAN :
          LET g == ConfigGate(cfgValid, hw, cfg, multusAvailable)
          IN /\ checked' = Evaluated(ConfigOrder, g)
             /\ IF g = "ok" THEN Proceeds("emit_nad") ELSE EndsAt(g)
    /\ DispatchFrame

\* self.on.nad_config_changed.emit(): the attachment library reconciles
EmitNadConfigChanged ==
    /\ pc = "emit_nad"
    /\ Log("emit_nad_config_changed")
    /\ pc' = "emit_hugepages"
    /\ UNCHANGED <<status, result, dirty, gate, pfcpPlan, checked>>
    /\ StepFrame

\* self.on.hugepages_volumes_config_changed.emit()
EmitHugepagesVolumesConfigChanged ==
    /\ pc = "emit_hugepages"
    /\ Log("emit_hugepages_volumes_config_changed")
    /\ pc' = IF cfg.upf_mode = "dpdk" THEN "dpdk" ELSE "can_connect"
    /\ UNCHANGED <<status, result, dirty, gate, pfcpPlan, checked>>
    /\ StepFrame

\* if not dpdk.is_configured(...): dpdk.configure(...)
_configure_bessd_for_dpdk ==
    /\ pc = "dpdk"
    /\ \E configured \in BOOLEAN :
          IF configured
          THEN ops' = ops /\ dirty' = dirty
          ELSE Log("dpdk_configure") /\ dirty' = TRUE
    /\ pc' = "can_connect"
    /\ UNCHANGED <<status, result, gate, pfcpPlan, checked>>
    /\ StepFrame

\* if not self._bessd_container.can_connect(): return; else
\* self._on_bessd_pebble_ready(event)
CheckCanConnect ==
    /\ pc = "can_connect"
    /\ \E can, multusReady, storage \in BOOLEAN :
          LET g == BessdGate(cfgValid, hw, cfg, multusReady, storage)
          IN IF ~can
             THEN /\ checked' = Append(checked, "container")
                  /\ EndsAt("container")
             ELSE /\ checked' = checked \o <<"container">>
                                        \o Evaluated(BessdOrder, g)
                  /\ IF g = "ok" THEN Proceeds("check_file") ELSE EndsAt(g)
    /\ UNCHANGED <<ops, dirty, pfcpPlan>>
    /\ StepFrame

\* pfcp_agent_pebble_ready: _on_pfcp_agent_pebble_ready; with bessd not
\* running the event is deferred, that is dispatched again later
Dispatch_pfcp_agent_pebble_ready ==
    /\ pc = "idle"
    /\ __init__(leader, cfgValid) = "ok"
    /\ NewPass
    /\ event' = "pfcp_agent_pebble_ready"
    /\ \E bessdRunning \in BOOLEAN :
          LET g == PfcpGate(hw, cfg, bessdRunning)
          IN /\ checked' = Evaluated(PfcpOrder, g)
             /\ deferred' = Defers(g)
             /\ IF g = "ok" THEN Proceeds("pfcp_plan") ELSE EndsAt(g)
    /\ UNCHANGED <<multusVars, ensureVars, layerVars, conn, svcs, answers,
                   cfg, file, plan, routes, iptRules, marker, podDeleted,
                   quiet, bessRuns, outstanding, leader, cfgValid, hw,
                   pfcpPlan>>

\* Variant: the layer is added whatever the plan holds.
PfcpServicesAlwaysDiffer(planServices, layerServices) == TRUE

\* plan.services != layer.services
PfcpServicesDiffer(planServices, layerServices) ==
    planServices # layerServices

\* _configure_pfcp_agent_workload: if plan.services != layer.services
ComparePfcpPlan ==
    /\ pc = "pfcp_plan"
    /\ pc' = IF PfcpServicesDiffer(pfcpPlan, _pfcp_agent_pebble_layer)
             THEN "pfcp_add_layer" ELSE "status"
    /\ UNCHANGED <<status, result, ops, dirty, gate, pfcpPlan, checked>>
    /\ StepFrame

AddPfcpLayer ==
    /\ pc = "pfcp_add_layer"
    /\ pfcpPlan' = add_layer(pfcpPlan, _pfcp_agent_pebble_layer)
    /\ Log("pfcp_add_layer")
    /\ dirty' = TRUE
    /\ pc' = "pfcp_restart"
    /\ UNCHANGED <<status, result, gate, checked>>
    /\ StepFrame

RestartPfcpAgent ==
    /\ pc = "pfcp_restart"
    /\ Log("restart_pfcp")
    /\ dirty' = TRUE
    /\ pc' = "status"
    /\ UNCHANGED <<status, result, gate, pfcpPlan, checked>>
    /\ StepFrame

\* install: _on_install
Dispatch_install ==
    /\ pc = "idle"
    /\ __init__(leader, cfgValid) = "ok"
    /\ NewPass
    /\ event' = "install"
    /\ LET g == InstallGate(hw, cfg)
       IN /\ checked' = Evaluated(InstallOrder, g)
          /\ IF g = "ok" THEN Proceeds("create_service") ELSE EndsAt(g)
    /\ DispatchFrame

\* client.apply(service, ...)
_create_external_upf_service ==
    /\ pc = "create_service"
    /\ Log("apply_external_service")
    /\ dirty' = TRUE
    /\ pc' = "done"
    /\ result' = "installed"
    /\ UNCHANGED <<status, gate, pfcpPlan, checked>>
    /\ StepFrame

\* The operator sets a configuration that does not validate, or corrects it.
ConfigValidityChanged ==
    /\ pc = "idle"
    /\ cfgValid' = ~cfgValid
    /\ quiet' = FALSE
    /\ UNCHANGED <<multusVars, ensureVars, layerVars, liveVars, cfg, file,
                   plan, routes, iptRules, marker, podDeleted, status, pc,
                   restart, recreate_pod, elapsed, result, ops, dirty, afterOk,
                   fromEmpty, diffKind, entryMarker, attempted, attemptAt,
                   bessRuns, outstanding, facts, leader, hw, pfcpPlan, event,
                   gate, checked>>

InitTrigger ==
    /\ cfg \in TriggerConfigs
    /\ CharmAtRest
    /\ MultusAtRest
    /\ EnsureAtRest
    /\ LayerAtRest
    /\ LiveAtRest
    /\ leader \in BOOLEAN
    /\ cfgValid \in BOOLEAN
    /\ hw \in Nodes
    /\ pfcpPlan = {}
    /\ event = "none"
    /\ gate = "none"
    /\ checked = <<>>

NextTrigger ==
    \/ \E e \in Events : DispatchUnobserved(e)
    \/ Dispatch_bessd_pebble_ready
    \/ Dispatch_config_changed
    \/ EmitNadConfigChanged
    \/ EmitHugepagesVolumesConfigChanged
    \/ _configure_bessd_for_dpdk
    \/ CheckCanConnect
    \/ Dispatch_pfcp_agent_pebble_ready
    \/ ComparePfcpPlan
    \/ AddPfcpLayer
    \/ RestartPfcpAgent
    \/ Dispatch_install
    \/ _create_external_upf_service
    \/ ConfigValidityChanged
    \/ Abort
    \/ CompareConfigFile
    \/ _write_bessd_config_file
    \/ _create_default_route
    \/ _create_ran_route
    \/ CheckIpTablesRule
    \/ _create_ip_tables_rule
    \/ ComparePlan
    \/ AddBessdLayer
    \/ delete_pod
    \/ RestartRoutectl
    \/ RestartBessd
    \/ NoRestartNeeded
    \/ BessAlreadyExecuted
    \/ BessExecOk
    \/ \E d \in SlowExecTimes : BessExecFailed(d)
    \/ _create_bessctl_executed_validation_file
    \/ BessTimedOut
    \/ \E b, r, p \in BOOLEAN : SetUnitStatus(b, r, p)
    \/ Return
    \/ PodReplaced

SpecTrigger == InitTrigger /\ [][NextTrigger]_vars

----------------------------------------------------------------------------
(* The route and firewall steps of _configure_bessd_workload, entered again *)
(* and again on a container whose routing table and OUTPUT chain may hold   *)
(* something already.                                                       *)

\* routes a container may hold that the charm did not set, or set for other
\* gateways: the default route of eth0, a default route with the charm's
\* metric, a route to the subscriber subnet
OtherRoutes ==
    {[dst |-> "default", via |-> "10.1.0.1", metric |-> 0],
     [dst |-> "default", via |-> "192.168.250.254", metric |-> RouteMetric],
     [dst |-> "192.168.251.0/24", via |-> "192.168.252.254", metric |-> 0]}

\* the kernel holds one route per destination and metric
IsRouteTable(t) ==
    \A x \in t : \A y \in t : (x.dst = y.dst /\ x.metric = y.metric) => x = y

InitEnsure ==
    /\ cfg = [dnn |-> "internet", enable_hw_checksum |-> FALSE,
              upf_mode |-> "af_packet"]
    /\ routes \in {t \in SUBSET (OtherRoutes \cup {DefaultRoute, RanRoute}) :
                     IsRouteTable(t)}
    /\ iptRules \in {0, 1}
    /\ file = <<>>
    /\ plan = {}
    /\ marker = FALSE
    /\ podDeleted = FALSE
    /\ status = "Unknown"
    /\ pc = "idle"
    /\ restart = FALSE
    /\ recreate_pod = FALSE
    /\ elapsed = 0
    /\ result = "none"
    /\ ops = <<>>
    /\ dirty = FALSE
    /\ afterOk = FALSE
    /\ quiet = TRUE
    /\ fromEmpty = FALSE
    /\ diffKind = "n/a"
    /\ entryMarker = "n/a"
    /\ attempted = FALSE
    /\ attemptAt = 0
    /\ bessRuns = 0
    /\ outstanding = "none"
    /\ facts = <<>>
    /\ MultusAtRest
    /\ UnitAtRest
    /\ EnsureAtRest
    /\ LayerAtRest
    /\ LiveAtRest

\* _create_default_route() is reached: the first time, or again after the
\* firewall step of the round before, whose outcome is kept from the first
\* round on.
EnsureRound ==
    /\ pc \in {"idle", "plan"}
    /\ rounds < MaxEnsureRounds
    /\ rounds' = rounds + 1
    /\ once' = IF pc = "plan" /\ once = <<>>
               THEN <<[routes |-> routes, iptRules |-> iptRules]>>
               ELSE once
    /\ pc' = "default_route"
    /\ UNCHANGED <<multusVars, trigVars, layerVars, liveVars, cfg, file, plan,
                   routes, iptRules,
                   marker, podDeleted, status, restart, recreate_pod, elapsed,
                   result, ops, dirty, afterOk, quiet, fromEmpty, diffKind,
                   entryMarker, attempted, attemptAt, bessRuns, outstanding,
                   facts>>

NextEnsure ==
    \/ EnsureRound
    \/ _create_default_route
    \/ _create_ran_route
    \/ CheckIpTablesRule
    \/ _create_ip_tables_rule

SpecEnsure == InitEnsure /\ [][NextEnsure]_vars

----------------------------------------------------------------------------
(* kubernetes_multus.py: the cluster objects *)

\* self.network_attachment_definitions, by name
NadList == <<"access-net", "core-net">>

\* containers of the statefulset's pod template
Containers == {"bessd", "pfcp-agent"}
Capabilities == {"NET_ADMIN", "NET_RAW"}

\* Optional[list]: None or a list
PyNone == [tag |-> "None", items |-> <<>>]
PyList(xs) == [tag |-> "list", items |-> xs]

\* NetworkAnnotation.dict()
NetworkAnnotation(n, i, ips) == [name |-> n, interface |-> i, ips |-> ips]

AnnotationLists ==
    {<<>>,
     <<NetworkAnnotation("access-net", "access", PyNone),
       NetworkAnnotation("core-net", "core", PyNone)>>,
     <<NetworkAnnotation("access-net", "access", PyList(<<"192.168.252.3/24">>)),
       NetworkAnnotation("core-net", "core", PyList(<<"192.168.250.3/24">>))>>}

\* the same annotations in another order
SwappedAnnotations ==
    <<NetworkAnnotation("core-net", "core", PyNone),
      NetworkAnnotation("access-net", "access", PyNone)>>

\* json.dumps / json.loads of a list of annotation dicts: None is written null,
\* a list is written an array, and back.
JsonValue(v) ==
    IF v.tag = "None" THEN [tag |-> "null", items |-> <<>>]
    ELSE [tag |-> "array", items |-> v.items]

PyValue(j) ==
    IF j.tag = "null" THEN [tag |-> "None", items |-> <<>>]
    ELSE [tag |-> "list", items |-> j.items]

json_dumps(l) ==
    [k \in 1..Len(l) |-> [l[k] EXCEPT !.ips = JsonValue(l[k].ips)]]

json_loads(t) ==
    [k \in 1..Len(t) |-> [t[k] EXCEPT !.ips = PyValue(t[k].ips)]]

\* get_container_index_from_name raises for a name the template does not have
HasContainers(names) ==
    \A k \in 1..Len(names) : names[k] \in Containers

\* the annotations of a list, whatever their order
AsSet(l) == {l[k] : k \in 1..Len(l)}

\* Variant: the annotations are compared as sets.
StatefulsetIsPatchedUnordered(a, cp, want, names) ==
    /\ a # <<>>
    /\ AsSet(json_loads(a[1])) = AsSet(want)
    /\ \A k \in 1..Len(names) :
          names[k] \in DOMAIN cp /\ "NET_ADMIN" \in cp[names[k]]

\* statefulset_is_patched, for container names the template has
statefulset_is_patched(a, cp, want, names) ==
    /\ a # <<>>
    /\ json_loads(a[1]) = want
    /\ \A k \in 1..Len(names) : "NET_ADMIN" \in cp[names[k]]

\* statefulset_is_patched raises: the annotation is as wanted and a named
\* container is looked up and not found before any container lacks NET_ADMIN
IsPatchedRaises(a, cp, want, names) ==
    /\ a # <<>>
    /\ json_loads(a[1]) = want
    /\ \E k \in 1..Len(names) :
          /\ names[k] \notin Containers
          /\ \A j \in 1..(k - 1) : "NET_ADMIN" \in cp[names[j]]

\* Variant: the capability is set on no container.
CapabilitiesUntouched(cp, names) == cp

\* patch_statefulset: capabilities = Capabilities(add=["NET_ADMIN"]) on each
\* named container
PatchedCapabilities(cp, names) ==
    [c \in Containers |->
        IF \E k \in 1..Len(names) : names[k] = c THEN {"NET_ADMIN"} ELSE cp[c]]

----------------------------------------------------------------------------
(* kubernetes_multus.py: KubernetesMultusCharmLib._patch *)

MLog(op) == mops' = Append(mops, op)

MRead(r) == mreads' = Append(mreads, r)

\* The cluster objects a handler finds when it starts.
Snapshot == [nads |-> nads, drift |-> drift, annot |-> annot, caps |-> caps]

\* Variants: the existence check answers the same whatever exists.
NadAlwaysFound(name, existing) == TRUE
NadNeverFound(name, existing) == FALSE

\* network_attachment_definition_is_created: client.get returns the object
\* (True) or raises ApiError with reason NotFound (False); the content of the
\* object is not looked at.
network_attachment_definition_is_created(name, existing) == name \in existing

\* Variant: the loop ends after its first definition.
AfterNadBreaks(i) == IF i > 1 THEN "is_patched" ELSE "nad_check"

\* for network_attachment_definition in self.network_attachment_definitions,
\* then the statefulset
AfterNad(i) == IF i > Len(NadList) THEN "is_patched" ELSE "nad_check"

_patch ==
    /\ mpc = "idle"
    /\ mpc' = AfterNad(1)
    /\ mi' = 1
    /\ mops' = <<>>
    /\ mprevOps' = mops
    /\ mafterOk' = (mresult = "ok" /\ mkind = "patch")
    /\ mresult' = "running"
    /\ mkind' = "patch"
    /\ mentry' = Snapshot
    /\ mreads' = <<>>
    /\ mfailed' = "none"
    /\ UNCHANGED <<charmVars, trigVars, ensureVars, layerVars, liveVars, nads,
                   annot, caps, wantAnnot, wantCaps, drift>>

\* network_attachment_definition_is_created returns True
NadIsCreated ==
    /\ mpc = "nad_check"
    /\ network_attachment_definition_is_created(NadList[mi], nads)
    /\ MRead(<<"get_nad", NadList[mi]>>)
    /\ mi' = mi + 1
    /\ mpc' = AfterNad(mi + 1)
    /\ UNCHANGED <<charmVars, trigVars, ensureVars, layerVars, liveVars, nads,
                   annot, caps, wantAnnot, wantCaps, mops, mresult, mafterOk,
                   mprevOps, drift, mkind, mentry, mfailed>>

\* network_attachment_definition_is_created returns False (NotFound)
NadIsNotCreated ==
    /\ mpc = "nad_check"
    /\ ~network_attachment_definition_is_created(NadList[mi], nads)
    /\ MRead(<<"get_nad", NadList[mi]>>)
    /\ mpc' = "nad_create"
    /\ UNCHANGED <<charmVars, trigVars, ensureVars, layerVars, liveVars, nads,
                   annot, caps, wantAnnot, wantCaps, mi, mops, mresult,
                   mafterOk, mprevOps, drift, mkind, mentry, mfailed>>

\* client.create: the object is created with the desired content
create_network_attachment_definition ==
    /\ mpc = "nad_create"
    /\ nads' = nads \cup {NadList[mi]}
    /\ drift' = drift \ {NadList[mi]}
    /\ MLog(<<"create", NadList[mi]>>)
    /\ mi' = mi + 1
    /\ mpc' = AfterNad(mi + 1)
    /\ UNCHANGED <<charmVars, trigVars, ensureVars, layerVars, liveVars, annot,
                   caps, wantAnnot, wantCaps, mresult, mafterOk, mprevOps,
                   mkind, mentry, mreads, mfailed>>

\* if not statefulset_is_patched(...): patch_statefulset(...)
CheckStatefulset ==
    /\ mpc = "is_patched"
    /\ ~IsPatchedRaises(annot, caps, wantAnnot, wantCaps)
    /\ MRead(<<"get_statefulset", "upf">>)
    /\ IF statefulset_is_patched(annot, caps, wantAnnot, wantCaps)
       THEN mpc' = "idle" /\ mresult' = "ok"
       ELSE mpc' = "patch" /\ mresult' = mresult
    /\ UNCHANGED <<charmVars, trigVars, ensureVars, layerVars, liveVars, nads,
                   annot, caps, wantAnnot, wantCaps, mi, mops, mafterOk,
                   mprevOps, drift, mkind, mentry, mfailed>>

\* Variant: the patch goes out with an empty annotation list too.
PatchWithoutAnnotations ==
    /\ mpc = "patch"
    /\ wantAnnot = <<>>
    /\ HasContainers(wantCaps)
    /\ annot' = <<json_dumps(wantAnnot)>>
    /\ caps' = PatchedCapabilities(caps, wantCaps)
    /\ MLog(<<"patch", "statefulset">>)
    /\ mpc' = "idle"
    /\ mresult' = "ok"
    /\ UNCHANGED <<charmVars, trigVars, ensureVars, layerVars, liveVars, nads,
                   wantAnnot, wantCaps, mi, mafterOk, mprevOps, drift, mkind,
                   mentry, mreads, mfailed>>

\* patch_statefulset with no annotation: nothing is patched
PatchNothing ==
    /\ mpc = "patch"
    /\ wantAnnot = <<>>
    /\ mpc' = "idle"
    /\ mresult' = "ok"
    /\ UNCHANGED <<charmVars, trigVars, ensureVars, layerVars, liveVars, nads,
                   annot, caps, wantAnnot, wantCaps, mi, mops, mafterOk,
                   mprevOps, drift, mkind, mentry, mreads, mfailed>>

\* patch_statefulset: the annotation and the capabilities go out in one patch
patch_statefulset ==
    /\ mpc = "patch"
    /\ wantAnnot # <<>>
    /\ HasContainers(wantCaps)
    /\ annot' = <<json_dumps(wantAnnot)>>
    /\ caps' = PatchedCapabilities(caps, wantCaps)
    /\ MLog(<<"patch", "statefulset">>)
    /\ mpc' = "idle"
    /\ mresult' = "ok"
    /\ UNCHANGED <<charmVars, trigVars, ensureVars, layerVars, liveVars, nads,
                   wantAnnot, wantCaps, mi, mafterOk, mprevOps, drift, mkind,
                   mentry, mreads, mfailed>>

\* The read a handler is making at a position, if it is making one.
ReadAt(p) ==
    IF p \in {"nad_check", "rm_check"} THEN <<<<"get_nad", NadList[mi]>>>>
    ELSE IF p = "is_patched" THEN <<<<"get_statefulset", "upf">>>>
    ELSE <<>>

\* Variant: a failed existence check is taken for "not found".
PatchErrorSwallowed ==
    /\ mpc = "nad_check"
    /\ mpc' = "nad_create"
    /\ mfailed' = mpc
    /\ mreads' = mreads \o ReadAt(mpc)
    /\ UNCHANGED <<charmVars, trigVars, ensureVars, layerVars, liveVars, nads,
                   annot, caps, wantAnnot, wantCaps, mi, mops, mresult,
                   mafterOk, mprevOps, drift, mkind, mentry>>

\* A call of the client raises (the existence check: KubernetesMultusError for
\* anything but NotFound), or a named container is not in the template: the
\* handler ends with the error.
PatchAborts ==
    /\ mpc # "idle"
    /\ mpc' = "idle"
    /\ mresult' = "error"
    /\ mfailed' = mpc
    /\ mreads' = mreads \o ReadAt(mpc)
    /\ UNCHANGED <<charmVars, trigVars, ensureVars, layerVars, liveVars, nads,
                   annot, caps, wantAnnot, wantCaps, mi, mops, mafterOk,
                   mprevOps, drift, mkind, mentry>>

----------------------------------------------------------------------------
(* kubernetes_multus.py: KubernetesMultusCharmLib._on_remove *)

AfterRemove(i) == IF i > Len(NadList) THEN "idle" ELSE "rm_check"

RemoveResult(i) == IF i > Len(NadList) THEN "ok" ELSE "running"

_on_remove ==
    /\ mpc = "idle"
    /\ mpc' = AfterRemove(1)
    /\ mi' = 1
    /\ mops' = <<>>
    /\ mprevOps' = mops
    /\ mafterOk' = FALSE
    /\ mresult' = RemoveResult(1)
    /\ mkind' = "remove"
    /\ mentry' = Snapshot
    /\ mreads' = <<>>
    /\ mfailed' = "none"
    /\ UNCHANGED <<charmVars, trigVars, ensureVars, layerVars, liveVars, nads,
                   annot, caps, wantAnnot, wantCaps, drift>>

\* network_attachment_definition_is_created returns True: delete follows
RemoveNadIsCreated ==
    /\ mpc = "rm_check"
    /\ network_attachment_definition_is_created(NadList[mi], nads)
    /\ MRead(<<"get_nad", NadList[mi]>>)
    /\ mpc' = "rm_delete"
    /\ UNCHANGED <<charmVars, trigVars, ensureVars, layerVars, liveVars, nads,
                   annot, caps, wantAnnot, wantCaps, mi, mops, mresult,
                   mafterOk, mprevOps, drift, mkind, mentry, mfailed>>

\* network_attachment_definition_is_created returns False: nothing to delete
RemoveNadIsNotCreated ==
    /\ mpc = "rm_check"
    /\ ~network_attachment_definition_is_created(NadList[mi], nads)
    /\ MRead(<<"get_nad", NadList[mi]>>)
    /\ mi' = mi + 1
    /\ mpc' = AfterRemove(mi + 1)
    /\ mresult' = RemoveResult(mi + 1)
    /\ UNCHANGED <<charmVars, trigVars, ensureVars, layerVars, liveVars, nads,
                   annot, caps, wantAnnot, wantCaps, mops, mafterOk, mprevOps,
                   drift, mkind, mentry, mfailed>>

delete_network_attachment_definition ==
    /\ mpc = "rm_delete"
    /\ nads' = nads \ {NadList[mi]}
    /\ drift' = drift \ {NadList[mi]}
    /\ MLog(<<"delete", NadList[mi]>>)
    /\ mi' = mi + 1
    /\ mpc' = AfterRemove(mi + 1)
    /\ mresult' = RemoveResult(mi + 1)
    /\ UNCHANGED <<charmVars, trigVars, ensureVars, layerVars, liveVars, annot,
                   caps, wantAnnot, wantCaps, mafterOk, mprevOps, mkind,
                   mentry, mreads, mfailed>>

----------------------------------------------------------------------------
(* service_is_running_on_container, asked by _on_pfcp_agent_pebble_ready    *)
(* and by _set_unit_status on the containers as they are                    *)

ContainerOf(service) ==
    IF service = "pfcp-agent" THEN "pfcp-agent" ELSE "bessd"

\* Variant: get_service is called outside a try.
ServiceIsRunningUnguarded(can_connect, state) ==
    IF ~can_connect THEN "False"
    ELSE IF state = "absent" THEN "ModelError"
    ELSE PyBool(state = "active")

\* What the call gives: "True" or "False" returned (the name of an exception
\* would stand for a raise)
service_is_running_on_container(can_connect, state) ==
    IF ~can_connect THEN "False"
    ELSE IF state = "absent" THEN "False"
    ELSE PyBool(state = "active")

\* the query for a service, with what it found
Query(service) ==
    [service |-> service,
     conn |-> conn[ContainerOf(service)],
     state |-> svcs[service],
     answer |-> service_is_running_on_container(conn[ContainerOf(service)],
                                                svcs[service])]

Raised(qs) == \E i \in 1..Len(qs) : qs[i].answer \notin {"True", "False"}

Said(qs, i) == i <= Len(qs) /\ qs[i].answer = "True"

\* _set_unit_status asks bessd, routectl, pfcp-agent and returns at the first
\* that is not running
StatusQueries ==
    LET b == Query("bessd")
        r == Query("routectl")
        p == Query("pfcp-agent")
    IN IF b.answer # "True" THEN <<b>>
       ELSE IF r.answer # "True" THEN <<b, r>>
       ELSE <<b, r, p>>

\* _on_pfcp_agent_pebble_ready, the liveness of bessd asked of the container
PfcpReadyObserved ==
    /\ pc = "idle"
    /\ __init__(leader, cfgValid) = "ok"
    /\ NewPass
    /\ event' = "pfcp_agent_pebble_ready"
    /\ LET q == Query("bessd")
           g == PfcpGate(hw, cfg, q.answer = "True")
       IN /\ answers' = IF g = "cpu" THEN <<>> ELSE <<q>>
          /\ checked' = Evaluated(PfcpOrder, g)
          /\ deferred' = Defers(g)
          /\ IF g # "cpu" /\ Raised(<<q>>)
             THEN /\ gate' = "none"
                  /\ status' = status
                  /\ result' = "error"
                  /\ pc' = "done"
             ELSE IF g = "ok" THEN Proceeds("pfcp_plan") ELSE EndsAt(g)
    /\ UNCHANGED <<multusVars, ensureVars, layerVars, conn, svcs, cfg, file,
                   plan, routes, iptRules, marker, podDeleted, quiet, bessRuns,
                   outstanding, leader, cfgValid, hw, pfcpPlan>>

\* The framework emits the deferred event again when the next event of the
\* unit is dispatched: the handler runs as it does for a new event.
Reemit ==
    /\ deferred
    /\ PfcpReadyObserved

\* _set_unit_status, the three services asked of the containers
SetUnitStatusObserved ==
    /\ pc = "status"
    /\ LET qs == StatusQueries
       IN /\ answers' = answers \o qs
          /\ IF Raised(qs)
             THEN /\ status' = status
                  /\ facts' = facts
                  /\ result' = "error"
             ELSE /\ status' = _set_unit_status(Said(qs, 1), Said(qs, 2),
                                                Said(qs, 3))
                  /\ facts' = <<[bessd |-> Said(qs, 1),
                                 routectl |-> Said(qs, 2),
                                 pfcp |-> Said(qs, 3)]>>
                  /\ result' = "ok"
    /\ pc' = "done"
    /\ UNCHANGED <<multusVars, trigVars, ensureVars, layerVars, conn, svcs,
                   deferred, cfg, quiet, file, plan, routes, iptRules, marker,
                   podDeleted, restart, recreate_pod, elapsed, ops, dirty,
                   afterOk, fromEmpty, diffKind, entryMarker, attempted,
                   attemptAt, bessRuns, outstanding>>

\* Between passes a container becomes unreachable or reachable, a service
\* stops, starts, or is not known to Pebble.
LivenessChanges ==
    /\ pc = "idle"
    /\ conn' \in [{"bessd", "pfcp-agent"} -> BOOLEAN]
    /\ svcs' \in [{"bessd", "routectl", "pfcp-agent"} ->
                     {"absent", "inactive", "active"}]
    /\ <<conn', svcs'>> # <<conn, svcs>>
    /\ UNCHANGED <<charmVars, multusVars, trigVars, ensureVars, layerVars,
                   answers, deferred>>

InitLiveness ==
    /\ cfg = [dnn |-> "internet", enable_hw_checksum |-> FALSE,
              upf_mode |-> "af_packet"]
    /\ CharmAtRest
    /\ MultusAtRest
    /\ UnitAtRest
    /\ once = <<>>
    /\ rounds = 0
    /\ LayerAtRest
    /\ conn \in [{"bessd", "pfcp-agent"} -> BOOLEAN]
    /\ svcs \in [{"bessd", "routectl", "pfcp-agent"} ->
                    {"absent", "inactive", "active"}]
    /\ answers = <<>>
    /\ deferred = FALSE

NextLiveness ==
    \/ PfcpReadyObserved
    \/ Reemit
    \/ ComparePfcpPlan
    \/ AddPfcpLayer
    \/ RestartPfcpAgent
    \/ SetUnitStatusObserved
    \/ Return
    \/ LivenessChanges

SpecLiveness == InitLiveness /\ [][NextLiveness]_vars

\* Events keep being dispatched to the unit (update_status is periodic), so a
\* deferred event is emitted again, and a handler that has started runs to
\* its end.
SpecLivenessFair ==
    /\ SpecLiveness
    /\ WF_vars(Reemit)
    /\ WF_vars(ComparePfcpPlan)
    /\ WF_vars(AddPfcpLayer)
    /\ WF_vars(RestartPfcpAgent)
    /\ WF_vars(SetUnitStatusObserved)
    /\ WF_vars(Return)

----------------------------------------------------------------------------
(* The declaration step of _configure_bessd_workload on the plan it finds:  *)
(* the plan of a fresh container, the plan this charm has set, a plan set   *)
(* by a revision of the charm with another command or another check, or a   *)
(* plan that holds a service of another layer.                              *)

\* A service of a layer of the image, or of an earlier revision of the
\* charm, that _bessd_pebble_layer does not name.
OtherService ==
    [name |-> "bessd-web", override |-> "replace", startup |-> "disabled",
     command |-> "/opt/bess/bessctl/bessctl http 0.0.0.0 8000",
     environment |-> "PYTHONPATH=/opt/bess"]

LayerPlans(c) ==
    {{}, _bessd_pebble_layer(c),
     _bessd_pebble_layer([c EXCEPT !.upf_mode = "dpdk"]),
     _bessd_pebble_layer(c) \cup {OtherService},
     {OtherService}}

LayerChecks ==
    {{}, _bessd_pebble_layer_checks,
     {[name |-> "online", override |-> "replace", level |-> "alive",
       tcp |-> 10514]}}

InitLayer ==
    /\ cfg = [dnn |-> "internet", enable_hw_checksum |-> FALSE,
              upf_mode |-> "af_packet"]
    /\ file \in {<<>>, <<render_bessd_config_file(cfg)>>}
    /\ plan \in LayerPlans(cfg)
    /\ checks \in LayerChecks
    /\ marker \in BOOLEAN
    /\ bessRuns = IF marker THEN 1 ELSE 0
    /\ routes = {}
    /\ iptRules = 0
    /\ podDeleted = FALSE
    /\ status = "Unknown"
    /\ pc = "idle"
    /\ restart = FALSE
    /\ recreate_pod = FALSE
    /\ elapsed = 0
    /\ result = "none"
    /\ ops = <<>>
    /\ dirty = FALSE
    /\ afterOk = FALSE
    /\ quiet = TRUE
    /\ fromEmpty = FALSE
    /\ diffKind = "n/a"
    /\ entryMarker = "n/a"
    /\ attempted = FALSE
    /\ attemptAt = 0
    /\ outstanding = "none"
    /\ facts = <<>>
    /\ MultusAtRest
    /\ UnitAtRest
    /\ EnsureAtRest
    /\ LiveAtRest

NextLayer ==
    \/ _on_bessd_pebble_ready
    \/ CompareConfigFile
    \/ _write_bessd_config_file
    \/ _create_default_route
    \/ _create_ran_route
    \/ CheckIpTablesRule
    \/ _create_ip_tables_rule
    \/ ComparePlan
    \/ AddBessdLayer
    \/ delete_pod
    \/ RestartRoutectl
    \/ RestartBessd
    \/ NoRestartNeeded
    \/ BessAlreadyExecuted
    \/ BessExecOk
    \/ _create_bessctl_executed_validation_file
    \/ \E b, r, p \in BOOLEAN : SetUnitStatus(b, r, p)
    \/ Return
    \/ PodReplaced

SpecLayer == InitLayer /\ [][NextLayer]_vars

----------------------------------------------------------------------------
(* The attachment reconciler on a cluster in any state *)

InitMultus ==
    /\ cfg = [dnn |-> "internet", enable_hw_checksum |-> FALSE,
              upf_mode |-> "af_packet"]
    /\ CharmAtRest
    /\ nads \in SUBSET {NadList[k] : k \in 1..Len(NadList)}
    /\ drift \in SUBSET nads
    /\ annot \in {<<>>} \cup {<<json_dumps(l)>> : l \in AnnotationLists}
                 \cup {<<json_dumps(SwappedAnnotations)>>}
    /\ caps \in [Containers -> SUBSET Capabilities]
    /\ wantAnnot \in AnnotationLists
    /\ wantCaps \in {<<>>, <<"bessd">>, <<"bessd", "pfcp-agent">>, <<"sidecar">>}
    /\ mpc = "idle"
    /\ mi = 1
    /\ mops = <<>>
    /\ mresult = "none"
    /\ mafterOk = FALSE
    /\ mprevOps = <<>>
    /\ mkind = "none"
    /\ mentry = Snapshot
    /\ mreads = <<>>
    /\ mfailed = "none"
    /\ UnitAtRest
    /\ EnsureAtRest
    /\ LayerAtRest
    /\ LiveAtRest

NextMultus ==
    \/ _patch
    \/ NadIsCreated
    \/ NadIsNotCreated
    \/ create_network_attachment_definition
    \/ CheckStatefulset
    \/ PatchNothing
    \/ patch_statefulset
    \/ PatchAborts
    \/ _on_remove
    \/ RemoveNadIsCreated
    \/ RemoveNadIsNotCreated
    \/ delete_network_attachment_definition

SpecMultus == InitMultus /\ [][NextMultus]_vars

----------------------------------------------------------------------------
(* Properties *)

\* C1: a _patch that follows a completed _patch, with the same desired lists
\* and nothing else touching the cluster, creates no attachment definition
\* and does not patch the statefulset.
C1_SecondPatchWritesNothing == mafterOk => mops = <<>>

C1_Witness ==
    /\ mafterOk
    /\ mpc = "idle"
    /\ mresult = "ok"
    /\ Len(mprevOps) = 3

Did(op) == \E i \in 1..Len(ops) : ops[i] = op

\* _configure_bessd_workload went past its restart / replace step
ConfigureDone ==
    \/ pc \in {"bess_loop", "bess_mark", "status"}
    \/ pc = "done" /\ result \in {"ok", "timeout"}

PassCompleted == pc = "done" /\ result = "ok"

\* C2: when the marker exists at the entry of _run_bess_configuration, the
\* runner returns at its first test: bessctl is never executed, ok or not,
\* no time is spent retrying, the marker is not written and no timeout is
\* raised.
C2_MarkerAtEntryNoBootstrap ==
    entryMarker = "present" =>
        /\ ~attempted
        /\ ~Did("bessctl_run")
        /\ ~Did("push_marker")
        /\ elapsed = 0
        /\ pc \in {"bess_loop", "status", "done"}
        /\ result # "timeout"
        /\ (pc = "bess_loop" => ENABLED BessAlreadyExecuted)

C2_Witness == entryMarker = "present" /\ pc = "status"

\* C3: with the marker absent at entry and no successful bessctl run, every
\* failed attempt is followed by a wait of 2, so the loop's next test is at
\* least 2 after the attempt started; no attempt starts after more than 300
\* have elapsed; beyond 300 the only continuation is the timeout error;
\* and when it is raised more than 300 have elapsed and the marker was never
\* created.
C3_ContinuousFailureTimesOut ==
    /\ (attempted /\ ~Did("bessctl_run")) =>
           /\ elapsed >= attemptAt + 2
           /\ attemptAt <= 300
           /\ ~marker
           /\ ~Did("push_marker")
    /\ (pc = "bess_loop" /\ elapsed > 300) =>
           /\ ENABLED BessTimedOut
           /\ ~ENABLED BessExecOk
           /\ ~ENABLED (\E d \in QuickExecTimes : BessExecFailed(d))
    /\ result = "timeout" =>
           /\ attempted
           /\ elapsed > 300
           /\ ~marker

C3_Witness == pc = "done" /\ result = "timeout" /\ entryMarker = "absent"

\* C4 (as claimed): in one container bessctl completes successfully at most
\* once, whatever fails in the passes.
C4_BootstrapAtMostOnce == bessRuns <= 1

\* C5: in a pass that finds the stored document to differ from the rendered
\* one in the checksum flag only, no service is restarted, and once the
\* restart / replace step is passed the pod has been deleted.
C5_ChecksumOnlyReplacesPod ==
    diffKind = "cksum_only" =>
        /\ ~Did("restart_routectl")
        /\ ~Did("restart_bessd")
        /\ (ConfigureDone => Did("delete_pod") /\ podDeleted)

C5_Witness == diffKind = "cksum_only" /\ PassCompleted

\* C6: in a pass that finds the stored document to differ from the rendered
\* one in the DNN only, the pod is not deleted, and once the restart / replace
\* step is passed the document has been written and routectl and bessd have
\* been restarted.
C6_DnnOnlyRestarts ==
    diffKind = "dnn_only" =>
        /\ ~recreate_pod
        /\ ~Did("delete_pod")
        /\ (ConfigureDone =>
               /\ restart
               /\ file = <<render_bessd_config_file(cfg)>>
               /\ Did("push_config")
               /\ Did("restart_routectl")
               /\ Did("restart_bessd"))

C6_Witness == diffKind = "dnn_only" /\ PassCompleted

\* C7 (as claimed): the first pass on a container with nothing applied, with
\* mode af_packet and checksum off, writes the file, sets both routes and the
\* rule, adds the layer, restarts routectl then bessd, runs bessctl once and
\* writes the marker, and does not delete the pod.
C7_FirstPassRestarts ==
    (PassCompleted /\ fromEmpty /\ cfg.upf_mode = "af_packet"
        /\ ~cfg.enable_hw_checksum) =>
        ops = <<"push_config", "route_default", "route_ran", "iptables_insert",
                "add_layer", "restart_routectl", "restart_bessd", "bessctl_run",
                "push_marker">>

WriteOps == {"push_config", "iptables_insert", "add_layer", "delete_pod",
             "restart_routectl", "restart_bessd", "bessctl_run", "push_marker"}

\* C8: a pass that follows a completed pass, with the same configuration and
\* nothing happening between, pushes no file, inserts no rule, adds no layer,
\* restarts no service, deletes no pod, does not run bessctl, leaves the
\* container and the cluster as they were, and sets Active when the three
\* services are reported running.
C8_SecondPassWritesNothing ==
    afterOk =>
        /\ \A i \in 1..Len(ops) : ops[i] \notin WriteOps
        /\ ~attempted
        /\ ~dirty
        /\ (PassCompleted /\ facts[1].bessd /\ facts[1].routectl /\ facts[1].pfcp
               => status = "Active")

C8_Witness == afterOk /\ PassCompleted /\ status = "Active" /\ Len(ops) = 2

\* C9 (as claimed): after a completed pass no written document is still
\* waiting for its restart or its pod replacement.
C9_NoOutstandingAction == PassCompleted => outstanding = "none"

\* C10: at a status evaluation (every gate passed) with bessd not running the
\* status is the wait for bessd, and Active is set only when the three
\* services were reported running in that evaluation.
C10_StatusFollowsLiveness ==
    PassCompleted =>
        /\ (~facts[1].bessd => status = "Waiting for bessd service to run")
        /\ (status = "Active" =>
               facts[1].bessd /\ facts[1].routectl /\ facts[1].pfcp)

C10_Witness ==
    /\ PassCompleted
    /\ facts = <<[bessd |-> FALSE, routectl |-> TRUE, pfcp |-> TRUE]>>

\* C13: whatever the routing table and the chain hold at first, every round
\* of default-route ensure, subscriber-route ensure and firewall-rule ensure
\* after the first leaves the table and the chain as the first round left
\* them, with both routes and one rule in place; the chain never holds more
\* than one ICMP port-unreachable DROP rule.
C13_EnsureIsIdempotent ==
    /\ iptRules <= 1
    /\ (once # <<>> /\ pc = "plan") =>
           /\ routes = once[1].routes
           /\ iptRules = once[1].iptRules
           /\ iptRules = 1
           /\ {DefaultRoute, RanRoute} \subseteq routes

C13_Witness ==
    /\ pc = "plan"
    /\ rounds = MaxEnsureRounds
    /\ once # <<>>
    /\ Cardinality(routes) = 3
    /\ Len(ops) > 2 * MaxEnsureRounds

\* what the container holds when a mutating call is issued differs from what
\* the call sets (for a restart or a pod deletion: the pass has written what
\* the restart or the deletion is to take up)
Justified(op) ==
    CASE op = "push_config" ->
             file = <<>> \/ file[1] # render_bessd_config_file(cfg)
      [] op = "route_default" -> DefaultRoute \notin routes
      [] op = "route_ran" -> RanRoute \notin routes
      [] op = "iptables_insert" -> iptRules = 0
      [] op = "add_layer" -> plan # _bessd_pebble_layer(cfg)
      [] op \in {"restart_routectl", "restart_bessd", "delete_pod"} ->
             Did("push_config") \/ Did("add_layer")
      [] op \in {"bessctl_run", "push_marker"} -> ~marker
      [] OTHER -> TRUE

\* C14 (as claimed): every mutating call of a pass is issued on a state that
\* differs from the desired one.
C14_WritesFollowDetectedDifference ==
    [][Len(ops') = Len(ops) + 1 => Justified(ops'[Len(ops')])]_vars

----------------------------------------------------------------------------
(* Properties of the attachment reconciler *)

Desired == {NadList[k] : k \in 1..Len(NadList)}

MDid(op) == \E i \in 1..Len(mops) : mops[i] = op

\* the names a call was issued for in the current handler
Issued(call) == {mops[i][2] : i \in {j \in 1..Len(mops) : mops[j][1] = call}}

NumIssued(call) == Cardinality({j \in 1..Len(mops) : mops[j][1] = call})

\* _patch is past its loop over the desired definitions
LoopDone ==
    /\ mkind = "patch"
    /\ \/ mpc \in {"is_patched", "patch"}
       \/ mpc = "idle" /\ mresult = "ok"
       \/ mpc = "idle" /\ mfailed \in {"is_patched", "patch"}

PatchCompleted == mkind = "patch" /\ mpc = "idle" /\ mresult = "ok"

RemoveCompleted == mkind = "remove" /\ mpc = "idle" /\ mresult = "ok"

\* C12: in _on_remove a desired definition that does not exist is passed over
\* (the handler goes on, it does not raise) and no delete is issued for it;
\* when the handler has completed, one delete was issued for each desired
\* definition that existed and for nothing else.
C12_TeardownDeletesExisting ==
    mkind = "remove" =>
        /\ \A i \in 1..Len(mops) :
              mops[i][1] = "delete" /\ mops[i][2] \in mentry.nads
        /\ (mpc = "rm_check" /\ NadList[mi] \notin nads) =>
              ENABLED RemoveNadIsNotCreated /\ ~ENABLED RemoveNadIsCreated
        /\ mpc = "rm_delete" => NadList[mi] \in nads
        /\ RemoveCompleted =>
              /\ Issued("delete") = mentry.nads \cap Desired
              /\ Len(mops) = Cardinality(mentry.nads \cap Desired)
              /\ nads = mentry.nads \ Desired

C12_Witness ==
    /\ RemoveCompleted
    /\ mentry.nads = {"core-net"}
    /\ mops = <<<<"delete", "core-net">>>>

\* C15: with a non-empty desired annotation list, a completed _patch has
\* patched the statefulset exactly when the annotation it found was absent or
\* did not load to the desired list, element by element in order, or a named
\* container lacked NET_ADMIN; and no _patch issues more than one patch.
C15_PatchIffNotPatched ==
    (mkind = "patch" /\ wantAnnot # <<>>) =>
        /\ NumIssued("patch") <= 1
        /\ PatchCompleted =>
              (MDid(<<"patch", "statefulset">>) <=>
                  ~(/\ mentry.annot # <<>>
                    /\ json_loads(mentry.annot[1]) = wantAnnot
                    /\ \A k \in 1..Len(wantCaps) :
                          "NET_ADMIN" \in mentry.caps[wantCaps[k]]))

C15_Witness ==
    /\ PatchCompleted
    /\ wantAnnot # <<>>
    /\ mentry.annot = <<json_dumps(SwappedAnnotations)>>
    /\ AsSet(wantAnnot) = AsSet(SwappedAnnotations)
    /\ MDid(<<"patch", "statefulset">>)

\* C16: _patch creates a desired definition exactly when its existence check
\* answered NotFound; a definition that exists under a desired name is neither
\* created again nor deleted nor changed, whether or not its content is the
\* desired one.
C16_CreateIffNotFound ==
    mkind = "patch" =>
        /\ \A i \in 1..Len(mops) : mops[i][1] \in {"create", "patch"}
        /\ \A i \in 1..Len(mops) :
              mops[i][1] = "create" => mops[i][2] \notin mentry.nads
        /\ mentry.nads \subseteq nads
        /\ drift = mentry.drift
        /\ LoopDone =>
              /\ Issued("create") = Desired \ mentry.nads
              /\ NumIssued("create") = Cardinality(Desired \ mentry.nads)

C16_Witness ==
    /\ PatchCompleted
    /\ mentry.nads = {"access-net"}
    /\ mentry.drift = {"access-net"}
    /\ MDid(<<"create", "core-net">>)

\* C18 (as claimed): after a patch of the statefulset every container still
\* has every capability it had before the patch.
C18_PatchKeepsCapabilities ==
    (mkind = "patch" /\ MDid(<<"patch", "statefulset">>)) =>
        \A c \in Containers : mentry.caps[c] \subseteq caps[c]

\* C19: when the existence check of a desired definition raises (anything but
\* NotFound), _patch has ended with the error: the only writes of the pass are
\* the creates of the definitions before that one, the statefulset is as it
\* was found, and the failed check was made once.
C19_CheckFailureAbortsPass ==
    (mkind = "patch" /\ mfailed = "nad_check") =>
        /\ mpc = "idle"
        /\ mresult = "error"
        /\ \A i \in 1..Len(mops) :
              /\ mops[i][1] = "create"
              /\ \E k \in 1..(mi - 1) : mops[i][2] = NadList[k]
        /\ annot = mentry.annot
        /\ caps = mentry.caps
        /\ mreads # <<>>
        /\ mreads[Len(mreads)] = <<"get_nad", NadList[mi]>>
        /\ \A i \in 1..(Len(mreads) - 1) : mreads[i] # <<"get_nad", NadList[mi]>>

C19_Witness ==
    /\ mkind = "patch"
    /\ mfailed = "nad_check"
    /\ mi = 2
    /\ mops = <<<<"create", "access-net">>>>

\* C20: with an empty desired annotation list _patch issues no patch and
\* leaves the annotation and the capabilities as it found them.
C20_EmptyAnnotationsNoPatch ==
    (mkind = "patch" /\ wantAnnot = <<>>) =>
        /\ ~MDid(<<"patch", "statefulset">>)
        /\ annot = mentry.annot
        /\ caps = mentry.caps

C20_Witness ==
    /\ PatchCompleted
    /\ wantAnnot = <<>>
    /\ wantCaps = <<"bessd">>
    /\ "NET_ADMIN" \notin caps["bessd"]
    /\ mentry.annot # <<>>

\* A handler of the leader's, with a valid configuration, has been dispatched
\* and has not returned to the dispatcher yet.
HandlerDispatched == event # "none" /\ leader /\ cfgValid

\* The node lacks what the configuration needs: avx2 and rdrand always, and
\* in dpdk mode pdpe1gb and the HugePages.
CapabilityGateFails ==
    \/ ~hw.extensions
    \/ cfg.upf_mode = "dpdk" /\ (~hw.pdpe1gb \/ ~hw.hugepages)

CapabilityReason ==
    IF ~hw.extensions
    THEN "Blocked: Please use a CPU that has the following capabilities: avx2, rdrand"
    ELSE IF ~hw.pdpe1gb
    THEN "Blocked: Please use a CPU that has the following capabilities: avx2, rdrand, pdpe1gb"
    ELSE "Blocked: Not enough HugePages available"

\* C11: in a pass of a handler where the capability gate (CPU features,
\* HugePages) fails, the pass ends at that gate with the gate's Blocked
\* reason whatever the liveness of any process is: no liveness is asked, no
\* Waiting and no Active status is set, and nothing is written.
C11_CapabilityGateBlocks ==
    (HandlerDispatched /\ CapabilityGateFails) =>
        /\ pc = "done"
        /\ gate = "cpu"
        /\ status = CapabilityReason
        /\ facts = <<>>
        /\ ops = <<>>
        /\ ~dirty

C11_Witness ==
    /\ HandlerDispatched
    /\ event = "pfcp_agent_pebble_ready"
    /\ cfg.upf_mode = "dpdk"
    /\ hw = [extensions |-> TRUE, pdpe1gb |-> TRUE, hugepages |-> FALSE]
    /\ pc = "done"
    /\ status = "Blocked: Not enough HugePages available"

\* C17: while the configuration does not validate, no pass of the leader's
\* gets past the dispatch: no handler position is entered, nothing is
\* written or emitted to the attachment library, and a dispatched event
\* leaves the status Blocked with the validation message; this lasts until
\* the configuration is corrected.
C17_InvalidConfigBlocksAll ==
    (leader /\ ~cfgValid) =>
        /\ pc \in {"idle", "done"}
        /\ ops = <<>>
        /\ ~dirty
        /\ event # "none" =>
              /\ gate = "config_invalid"
              /\ result = "gated"
              /\ status = "Blocked: invalid configuration"

\* an invalid configuration met after a pass that had written the file
C17_Witness ==
    /\ leader
    /\ ~cfgValid
    /\ pc = "done"
    /\ event = "pfcp_agent_pebble_ready"
    /\ file # <<>>
    /\ status = "Blocked: invalid configuration"

\* C21: _on_remove is best-effort: a failure while checking or deleting one
\* definition is swallowed, so the handler never ends with an error and,
\* when it has ended, a delete was attempted for every desired definition
\* that existed when it started.
C21_TeardownIsBestEffort ==
    mkind = "remove" =>
        /\ mresult # "error"
        /\ mpc = "idle" => mentry.nads \cap Desired \subseteq Issued("delete")

\* C22: in a pass, bessd is restarted only right after routectl was restarted
\* (the restart returned), each at most once: routectl first, then bessd.
C22_RoutectlBeforeBessd ==
    /\ \A i \in 1..Len(ops) :
          ops[i] = "restart_bessd" => i > 1 /\ ops[i - 1] = "restart_routectl"
    /\ Cardinality({i \in 1..Len(ops) : ops[i] = "restart_bessd"}) <= 1
    /\ Cardinality({i \in 1..Len(ops) : ops[i] = "restart_routectl"}) <= 1
    /\ pc = "restart_bessd" => ops[Len(ops)] = "restart_routectl"

C22_Witness ==
    /\ pc = "done"
    /\ result = "ok"
    /\ restart
    /\ Len(ops) >= 2
    /\ \E i \in 2..Len(ops) :
          ops[i] = "restart_bessd" /\ ops[i - 1] = "restart_routectl"

\* C23: the checksum flag that decides the pod replacement is read from the
\* stored document before the pass overwrites it: where the write is about
\* to be made the decision is the one the still stored document gives, and
\* after the write a stored document that differed in the flag only has led
\* to the replacement although the document now stored has the desired flag.
C23_FlagReadBeforeOverwrite ==
    /\ pc = "write_file" =>
          /\ ~Did("push_config")
          /\ recreate_pod = _hwcksum_config_matches_pod_config(file, cfg)
    /\ (Did("push_config") /\ diffKind = "cksum_only") => recreate_pod
    /\ (Did("push_config") /\ diffKind = "dnn_only") => ~recreate_pod

C23_Witness ==
    /\ Did("push_config")
    /\ diffKind = "cksum_only"
    /\ recreate_pod
    /\ file = <<render_bessd_config_file(cfg)>>
    /\ ~_hwcksum_config_matches_pod_config(file, cfg)

\* _run_bess_configuration has been entered in this pass
RunnerEntered == entryMarker # "n/a"

\* C25: a pass that has deleted the pod, restarted bessd, or gone past the
\* branch without either, has entered _run_bess_configuration; the status
\* evaluation is reached through it only.
C25_RunnerAlwaysInvoked ==
    /\ (Did("delete_pod") \/ Did("restart_bessd")) => RunnerEntered
    /\ pc \in {"bess_loop", "bess_mark", "status"} => RunnerEntered
    /\ (pc = "done" /\ result \in {"ok", "timeout"}) => RunnerEntered
    /\ RunnerEntered => ~(recreate_pod /\ ~Did("delete_pod"))

\* the runner entered after the pod was deleted in the same pass
C25_Witness ==
    /\ Did("delete_pod")
    /\ pc = "bess_loop"
    /\ RunnerEntered
    /\ elapsed = 0

\* C26: the marker exists only if bessctl run has completed successfully in
\* this container (bessRuns counts these; a replaced pod starts at 0);
\* a push of the marker follows a successful run at once, never a failed one,
\* and is made at most once in a pass and only by a runner that found the
\* marker absent.
C26_MarkerOnlyAfterSuccess ==
    /\ marker => bessRuns >= 1
    /\ \A i \in 1..Len(ops) :
          ops[i] = "push_marker" =>
              /\ i > 1
              /\ ops[i - 1] = "bessctl_run"
              /\ entryMarker = "absent"
    /\ Cardinality({i \in 1..Len(ops) : ops[i] = "push_marker"}) <= 1
    /\ pc = "bess_mark" => ~marker /\ ops[Len(ops)] = "bessctl_run"

\* the marker written after a run that succeeded on a later attempt
C26_Witness ==
    /\ marker
    /\ Did("push_marker")
    /\ elapsed > 0
    /\ bessRuns = 1

\* _run_bess_configuration has ended in this pass: it returned (the status
\* evaluation follows), or it raised
RunnerEnded == pc \in {"status", "done"}

\* C27: _run_bess_configuration always terminates: once entered it ends,
\* by returning or by raising; throughout, bessctl run completes at most
\* once in a pass, the marker is pushed only right after it, and past the
\* budget nothing is attempted any more.
C27_RunnerTerminates ==
    /\ [](Cardinality({i \in 1..Len(ops) : ops[i] = "bessctl_run"}) <= 1)
    /\ []((pc = "bess_loop" /\ attempted) => attemptAt <= Timeout)
    /\ (pc = "bess_loop") ~> RunnerEnded

\* the runner ended by the timeout after failing throughout
C27_Witness ==
    /\ pc = "done"
    /\ result = "timeout"
    /\ elapsed > Timeout
    /\ ~marker

\* the pass of _on_pfcp_agent_pebble_ready
SidecarPass == event = "pfcp_agent_pebble_ready"

\* C30: _configure_pfcp_agent_workload adds its layer and restarts pfcp-agent
\* exactly when the services of the plan differ from those of the layer: the
\* layer is added only on a plan that differs, the restart follows the added
\* layer and nothing else, a pass that got to the status evaluation has either
\* written nothing or added the layer and restarted, and then the plan holds
\* the service of the layer; the pod is never deleted in such a pass.
C30_SidecarReplacesIffDifferent ==
    SidecarPass =>
        /\ pc = "pfcp_add_layer" =>
              ops = <<>> /\ pfcpPlan # _pfcp_agent_pebble_layer
        /\ pc = "pfcp_restart" => ops = <<"pfcp_add_layer">>
        /\ pc = "status" =>
              \/ ops = <<>> /\ pfcpPlan = _pfcp_agent_pebble_layer
              \/ /\ ops = <<"pfcp_add_layer", "restart_pfcp">>
                 /\ _pfcp_agent_pebble_layer \subseteq pfcpPlan
        /\ ~Did("delete_pod")
        /\ ~recreate_pod

\* a pass on a plan that already holds the service: nothing written
C30_Witness ==
    /\ SidecarPass
    /\ pc = "done"
    /\ result = "ok"
    /\ ops = <<>>
    /\ pfcpPlan = _pfcp_agent_pebble_layer

\* a pass on a plan without the service: layer added, service restarted
C30_WitnessReplaced ==
    /\ SidecarPass
    /\ pc = "done"
    /\ result = "ok"
    /\ ops = <<"pfcp_add_layer", "restart_pfcp">>

\* check a was evaluated before check b in this pass
EvaluatedBefore(a, b) ==
    \E i, j \in 1..Len(checked) : i < j /\ checked[i] = a /\ checked[j] = b

\* the handlers that end in _set_unit_status
StatusHandlers ==
    {"bessd_pebble_ready", "config_changed", "pfcp_agent_pebble_ready"}

\* C28: in the handlers that set the status the checks are evaluated in the
\* order capability gate, networking ready, storage attached, then the
\* liveness of bessd, routectl and pfcp-agent, and the first that fails
\* decides: a pass ended by a check has asked no liveness after it, and the
\* liveness of the three services is evaluated, hence Active set, only in a
\* pass that evaluated and passed the capability gate, then the networking
\* and then the storage check.
C28_FixedPriorityOrder ==
    (event \in StatusHandlers /\ leader /\ cfgValid) =>
        /\ (pc = "done" /\ gate # "none") =>
              /\ checked[Len(checked)] = gate
              /\ facts = <<>>
        /\ facts # <<>> =>
              /\ EvaluatedBefore("cpu", "multus")
              /\ EvaluatedBefore("multus", "storage")
              /\ status = _set_unit_status(facts[1].bessd, facts[1].routectl,
                                           facts[1].pfcp)

\* the plan holds the declaration of the layer: its services and its check
DeclarationAsDesired ==
    /\ plan = _bessd_pebble_layer(cfg)
    /\ checks = _bessd_pebble_layer_checks

\* C24: the declaration found is compared with the desired one as a whole,
\* services and health checks: a pass that comes out of the comparison
\* without having added the layer found both as desired, and a pass that
\* added the layer restarts (or replaces the pod).
C24_DeclarationComparedWhole ==
    /\ (pc = "act" /\ ~Did("add_layer")) => DeclarationAsDesired
    /\ Did("add_layer") => restart

\* C29: service_is_running_on_container never raises: every query is
\* answered True or False and no pass ends in an error of a query; the
\* answer is False when the container cannot be reached and when Pebble does
\* not know the service, as it is for a service that is not running, and
\* True only for a running service of a reachable container.
C29_LivenessNeverRaises ==
    /\ result # "error"
    /\ \A i \in 1..Len(answers) :
          /\ answers[i].answer \in {"True", "False"}
          /\ ~answers[i].conn => answers[i].answer = "False"
          /\ answers[i].state \in {"absent", "inactive"} =>
                answers[i].answer = "False"
          /\ answers[i].answer = "True" =>
                answers[i].conn /\ answers[i].state = "active"

\* bessd and routectl run, the pfcp-agent container cannot be reached
C29_Witness ==
    /\ pc = "done"
    /\ Len(answers) = 4
    /\ ~answers[4].conn
    /\ answers[4].answer = "False"
    /\ status = "Waiting for pfcp agent service to run"

\* routectl is not known to Pebble
C29_WitnessUnknownService ==
    /\ pc = "done"
    /\ Len(answers) = 3
    /\ answers[3].conn
    /\ answers[3].state = "absent"
    /\ answers[3].answer = "False"
    /\ status = "Waiting for routectl service to run"

\* the pass of _on_pfcp_agent_pebble_ready in which bessd was asked about and
\* was not reported running
PrimaryNotReported ==
    /\ event = "pfcp_agent_pebble_ready"
    /\ answers # <<>>
    /\ answers[1].service = "bessd"
    /\ answers[1].answer # "True"

\* C31: in a pass of the sidecar trigger in which bessd is not reported
\* running the pass ends at that check: the status is Waiting for bessd, the
\* pfcp-agent layer is not added, pfcp-agent is not restarted, nothing is
\* written and nothing more is asked; a pass that adds the layer or restarts
\* pfcp-agent had bessd reported running.
C31_SidecarWaitsForPrimary ==
    /\ PrimaryNotReported =>
          /\ pc = "done"
          /\ gate = "bessd"
          /\ status = "Waiting for bessd service to run"
          /\ ops = <<>>
          /\ ~dirty
          /\ Len(answers) = 1
    /\ (event = "pfcp_agent_pebble_ready"
          /\ (Did("pfcp_add_layer") \/ Did("restart_pfcp")
                \/ pc \in {"pfcp_plan", "pfcp_add_layer", "pfcp_restart"})) =>
          answers[1].answer = "True"

\* bessd known to Pebble but not running, the plan of pfcp-agent still empty
C31_Witness ==
    /\ PrimaryNotReported
    /\ pc = "done"
    /\ answers[1].conn
    /\ answers[1].state = "inactive"
    /\ pfcpPlan = {}
    /\ status = "Waiting for bessd service to run"

\* C32: a pass that ends with an error raised in _configure_bessd_workload or
\* _run_bess_configuration, the TimeoutError included, has not evaluated
\* _set_unit_status and leaves the status as it was before the pass: the
\* step that raises changes no status and records no liveness fact, and the
\* status changes only in a step that ends the pass at a check or by the
\* status evaluation.
C32_ErrorKeepsStatus ==
    [][/\ (pc' = "done" /\ result' \in {"error", "timeout"}) =>
             /\ status' = status
             /\ facts' = <<>>
       /\ status' # status =>
             /\ pc' = "done"
             /\ result' \in {"ok", "gated"}]_vars

\* the timeout raised with the status of an earlier pass still displayed
C32_Witness ==
    /\ pc = "done"
    /\ result = "timeout"
    /\ facts = <<>>
    /\ status = "Active"

\* C33: the replacement of the container removes the marker file of the
\* bessctl run and keeps the stored upf.json, and a pass that enters
\* _run_bess_configuration without the marker and reaches the status has
\* executed bessctl in the new container and written the marker again.
C33_BootstrapRepeatsAfterReplacement ==
    [][/\ (podDeleted /\ ~podDeleted') =>
             /\ ~marker'
             /\ bessRuns' = 0
             /\ file' = file
       /\ (pc' = "status" /\ entryMarker' = "absent") =>
             /\ attempted'
             /\ marker'
             /\ bessRuns' >= 1]_vars

\* a pass after a complete one finds the stored file unchanged and no marker,
\* and runs bessctl again
C33_Witness ==
    /\ pc = "status"
    /\ status = "Active"
    /\ entryMarker = "absent"
    /\ diffKind = "same"
    /\ ~podDeleted
    /\ attempted
    /\ marker
    /\ bessRuns = 1

\* C34: a unit that is not the leader runs no handler: whatever the event,
\* __init__ returns before it observes it, so that nothing is written to the
\* cluster or to a container, no check of a handler is evaluated, and the
\* status of the pass is Blocked, scaling is not implemented.
C34_NonLeaderDoesNothing ==
    ~leader =>
        /\ pc \in {"idle", "done"}
        /\ ops = <<>>
        /\ ~dirty
        /\ checked = <<>>
        /\ pc = "done" =>
              /\ gate = "not_leader"
              /\ result = "gated"
              /\ status = "Blocked: Scaling is not implemented for this charm"

\* the install event on a unit that is not the leader
C34_Witness ==
    /\ ~leader
    /\ pc = "done"
    /\ event = "install"
    /\ cfgValid
    /\ _is_cpu_compatible(hw, cfg) = "ok"
    /\ status = "Blocked: Scaling is not implemented for this charm"

\* C35: the replacement of the declaration converges: once add_layer has
\* acted in a pass the services of the plan are the services of the layer,
\* and a pass that follows a completed pass with the configuration unchanged
\* neither adds the layer nor restarts routectl or bessd, whatever services
\* the plan held at first.
C35_DeclarationConverges ==
    /\ Did("add_layer") => plan = _bessd_pebble_layer(cfg)
    /\ afterOk =>
          /\ pc # "add_layer"
          /\ ~Did("add_layer")
          /\ ~Did("restart_routectl")
          /\ ~Did("restart_bessd")

BessdRuns == conn["bessd"] /\ svcs["bessd"] = "active"

\* C36: a pfcp_agent_pebble_ready that finds bessd not running is deferred,
\* not dropped; and when events keep being dispatched, a deferred event
\* that is emitted again with bessd running from then on has the layer of
\* pfcp-agent added: the deferred event is gone and the plan of the
\* pfcp-agent container holds the services of the layer.
C36_DeferredSidecarApplied ==
    /\ []((event = "pfcp_agent_pebble_ready" /\ gate = "bessd") => deferred)
    /\ []((deferred /\ []BessdRuns) =>
             <>(~deferred /\ pfcpPlan = _pfcp_agent_pebble_layer))

\* the pass of a deferred event that was emitted again: the status is still
\* the one set at the deferral and the layer has been added
C36_Witness ==
    /\ event = "pfcp_agent_pebble_ready"
    /\ pc = "status"
    /\ status = "Waiting for bessd service to run"
    /\ ~deferred
    /\ Did("pfcp_add_layer")
    /\ Did("restart_pfcp")
    /\ pfcpPlan = _pfcp_agent_pebble_layer

DesiredNads == {NadList[k] : k \in 1..Len(NadList)}

\* how many times the current _patch has created the definition n
Creates(n) == Cardinality({k \in 1..Len(mops) : mops[k] = <<"create", n>>})

\* A _patch has completed that found some of the desired definitions created
\* and the statefulset not patched, as a _patch that raised part-way leaves
\* them.
ResumedPatch ==
    /\ mkind = "patch"
    /\ mpc = "idle"
    /\ mresult = "ok"
    /\ mentry.nads # {}
    /\ HasContainers(wantCaps)
    /\ ~statefulset_is_patched(mentry.annot, mentry.caps, wantAnnot, wantCaps)

\* what the completed _patch has done and left
ResumedPatchCompletes ==
    /\ \A n \in DesiredNads :
          Creates(n) = IF n \in mentry.nads THEN 0 ELSE 1
    /\ DesiredNads \subseteq nads
    /\ statefulset_is_patched(annot, caps, wantAnnot, wantCaps)

\* C37 as stated: a _patch that completes after one that raised part-way
\* creates exactly the desired definitions that were missing, each once and
\* none that existed, and leaves every desired definition existing and the
\* statefulset patched, whatever the desired lists are.
C37_PatchResumes == ResumedPatch => ResumedPatchCompletes

\* C37, amended: the same for a desired annotation list that is not empty;
\* with an empty list patch_statefulset returns before it patches.
C37_PatchResumesWithAnnotations ==
    (ResumedPatch /\ wantAnnot # <<>>) => ResumedPatchCompletes

\* the _patch before created the first definition only and patched nothing;
\* this one has created the second and patched the statefulset
C37_Witness ==
    /\ ResumedPatch
    /\ wantAnnot # <<>>
    /\ mprevOps = <<<<"create", NadList[1]>>>>
    /\ mentry.nads = {NadList[1]}
    /\ mentry.annot = <<>>
    /\ mops = <<<<"create", NadList[2]>>, <<"patch", "statefulset">>>>

====
